---- MODULE Spec2Model ----
(***************************************************************************)
(* State-machine model of the sahim-chat realtime core:                    *)
(*   - chat/consumers.py   ChatConsumer (connect, receive, group handlers) *)
(*   - chat/serializers.py ChatSerializer.create (chat canonicalization)   *)
(*   - chat/models.py      Chat / Message rows and constraints             *)
(*   - chat/image_utils.py, chat/tasks.py  the file pipeline               *)
(* Strings that the code parses (file names, paths) are sequences of       *)
(* one-character tokens, so that splitext/basename are computed.           *)
(***************************************************************************)
EXTENDS Integers, Sequences, FiniteSets, TLC

\* ------------------------------------------------------------------ bounds
MaxConns == 2
MaxFrames == 1
MaxLog == 2
MaxLimit == 2
MaxReqs == 2
MaxRuns == 2

\* ------------------------------------------------------- program constants
CloseUnauthorized == 4001
CloseNotFound == 4004
CloseForbidden == 4003
CloseInternalError == 1011
HistoryLimit == 100
MAX_FILE_SIZE == 10 * 1024 * 1024
MAX_IMAGE_SIZE == 2 * 1024 * 1024
max_retries == 3

\* ------------------------------------------------------------- value sets
Users == {1, 2, 3}
AnonymousId == 0
NoUser == 0
NoChat == [id |-> 0, user1 |-> 0, user2 |-> 0, is_active |-> FALSE]
NoPath == <<>>
NoTask == ""
Conns == 1..MaxConns
UrlChatIds == {1, 2}

VARIABLES chats, messages, files, conn, groups, inbox, outbox, clock,
          requests, notices, task, uconn, ugroups, gate, reads

vars == <<chats, messages, files, conn, groups, inbox, outbox, clock,
          requests, notices, task, uconn, ugroups, gate, reads>>

\* the state of the REST requests and of the file pipeline, which the
\* websocket consumer never touches
rest == <<requests, notices, task, uconn, ugroups, gate, reads>>

\* ---------------------------------------------------------------- helpers
Digits == <<"0", "1", "2", "3", "4", "5", "6", "7", "8", "9">>

\* strftime('%Y%m%d_%H%M%S_%f') of the current time, as one token
Stamp(t) == Digits[(t % 10) + 1]

RECURSIVE LastDot(_, _)
\* index of the last "." of s at or below position i, 0 when there is none
LastDot(s, i) == IF i = 0 THEN 0 ELSE IF s[i] = "." THEN i ELSE LastDot(s, i - 1)

RECURSIVE LeadingDots(_, _)
\* number of "." tokens at the start of s from position i
LeadingDots(s, i) ==
    IF i > Len(s) THEN 0 ELSE IF s[i] = "." THEN 1 + LeadingDots(s, i + 1) ELSE 0

\* index of the first token of the basename of p (directories end in "/")
RECURSIVE BaseStart(_, _)
BaseStart(p, i) == IF i = 0 THEN 1 ELSE IF p[i] = "messages/" THEN i + 1 ELSE BaseStart(p, i - 1)

\* os.path.basename
basename(p) == SubSeq(p, BaseStart(p, Len(p)), Len(p))

\* os.path.splitext: <<root, ext>>; the extension starts at the last dot of the
\* basename unless that dot belongs to the leading dots of the basename
splitext(p) ==
    LET b == BaseStart(p, Len(p))
        base == SubSeq(p, b, Len(p))
        d == LastDot(base, Len(base))
        lead == LeadingDots(base, 1)
    IN IF d > lead
       THEN <<SubSeq(p, 1, b + d - 2), SubSeq(p, b + d - 1, Len(p))>>
       ELSE <<p, <<>>>>

\* the rows of the file store: a path and the identity of the bytes it holds
exists(fs, p) == \E f \in fs : f.path = p
DataAt(fs, p) == (CHOOSE f \in fs : f.path = p).data

\* Chat.objects.get(id=chat_id), None when the row does not exist
get_chat(cs, chat_id) ==
    IF \E ch \in cs : ch.id = chat_id THEN CHOOSE ch \in cs : ch.id = chat_id ELSE NoChat

\* the membership test with its second comparison made against the chat itself
NotParticipant_SelfCompare(ch, u) == ch.user1 # u /\ ch.user2 # ch.user2

\* chat.user1_id != user.id and chat.user2_id != user.id
NotParticipant(ch, u) == ch.user1 # u /\ ch.user2 # u

RECURSIVE InsertSorted(_, _)
\* m placed into the created_at-ascending sequence s (stable for equal keys)
InsertSorted(s, m) ==
    IF s = <<>> THEN <<m>>
    ELSE IF s[Len(s)].created_at <= m.created_at THEN Append(s, m)
    ELSE Append(InsertSorted(SubSeq(s, 1, Len(s) - 1), m), s[Len(s)])

RECURSIVE OrderByCreatedAt(_)
OrderByCreatedAt(s) ==
    IF s = <<>> THEN <<>>
    ELSE InsertSorted(OrderByCreatedAt(SubSeq(s, 1, Len(s) - 1)), s[Len(s)])

\* Message.objects.filter(chat_id=chat_id).order_by('created_at')[:limit]
get_chat_history(ms, chat_id, limit) ==
    LET sel == OrderByCreatedAt(SelectSeq(ms, LAMBDA m : m.chat = chat_id))
    IN SubSeq(sel, 1, IF Len(sel) < limit THEN Len(sel) ELSE limit)

\* ChatConsumer.format_message_data: the payload of a chat_message
format_message_data(m, current_user) ==
    [id |-> m.id, sender |-> m.sender, content |-> m.content,
     message_type |-> m.message_type, file_path |-> m.file_path,
     read_by |-> m.read_by, read_at |-> m.read_at,
     is_sent |-> (m.sender = current_user)]

\* json.dumps({'type': 'chat_message', **message_data})
ChatMessageFrame(d) == [type |-> "chat_message", message |-> d]

ErrorFrame(text) == [type |-> "error", message |-> text]

RECURSIVE HistoryFrames(_, _)
HistoryFrames(ms, u) ==
    IF ms = <<>> THEN <<>>
    ELSE <<ChatMessageFrame(format_message_data(Head(ms), u))>> \o HistoryFrames(Tail(ms), u)

\* a group_send that reaches one channel of the group only
group_send_FirstOnly(ib, members, ev) ==
    [c \in Conns |-> IF c \in members /\ \A d \in members : c <= d
                     THEN Append(ib[c], ev) ELSE ib[c]]

\* channel_layer.group_send: the event is queued on every channel of the group
group_send(ib, members, ev) ==
    [c \in Conns |-> IF c \in members THEN Append(ib[c], ev) ELSE ib[c]]

GroupOf(chat_id) == groups[chat_id]

\* ------------------------------------------------------------------- Init
Reqs == 1..MaxReqs

\* a REST request slot nobody has used yet; the pipeline with no job
IdleRequest == [pc |-> "idle", user |-> NoUser, user2_id |-> NoUser, chat |-> 0, status |-> 0]
NoJob == [pc |-> "none"]

\* a notification connection nobody has opened yet: named tells whether
\* connect has set self.user_group_name; no credential at the identity gate
NewUserConn == [state |-> "new", user |-> NoUser, named |-> FALSE, raised |-> FALSE,
                inbox |-> <<>>, outbox |-> <<>>]
NoGate == [pc |-> "none"]

\* no mark_message_as_read in progress on a connection
IdleRead == [pc |-> "idle"]

Quiet ==
    /\ requests = [r \in Reqs |-> IdleRequest]
    /\ notices = {}
    /\ task = NoJob
    /\ uconn = [c \in Conns |-> NewUserConn]
    /\ ugroups = [u \in Users |-> {}]
    /\ gate = NoGate
    /\ reads = [c \in Conns |-> IdleRead]

InitChats == {[id |-> 1, user1 |-> 1, user2 |-> 2, is_active |-> TRUE]}

NewConn == [state |-> "new", user |-> NoUser, chat_id |-> 0, close_code |-> 0]
ClosedConn == [state |-> "closed", user |-> NoUser, chat_id |-> 0, close_code |-> 0]

Init ==
    /\ chats = InitChats
    /\ messages = <<>>
    /\ files = {}
    /\ conn = [c \in Conns |-> NewConn]
    /\ groups = [g \in UrlChatIds |-> {}]
    /\ inbox = [c \in Conns |-> <<>>]
    /\ outbox = [c \in Conns |-> <<>>]
    /\ clock = 1
    /\ Quiet

\* ------------------------------------------------- ChatConsumer.connect
\* Authorization and registration: everything up to accept().
Connect(c, u, chat_id) ==
    /\ conn[c].state = "new"
    /\ \A d \in Conns : d < c => conn[d].state # "new"
    /\ LET chat == get_chat(chats, chat_id)
           code == IF u = AnonymousId THEN CloseUnauthorized
                   ELSE IF chat = NoChat THEN CloseNotFound
                   ELSE IF NotParticipant(chat, u) THEN CloseForbidden
                   ELSE 0
       IN IF code # 0
          THEN /\ conn' = [conn EXCEPT ![c] = [state |-> "rejected", user |-> u,
                                               chat_id |-> chat_id, close_code |-> code]]
               /\ UNCHANGED groups
          ELSE /\ conn' = [conn EXCEPT ![c] = [state |-> "accepted", user |-> u,
                                               chat_id |-> chat_id, close_code |-> 0]]
               /\ groups' = [groups EXCEPT ![chat_id] = @ \cup {c}]
    /\ UNCHANGED <<chats, messages, files, inbox, outbox, clock>>
    /\ UNCHANGED rest

\* a send_chat_history that publishes the history to the chat's group
SendHistory_ToGroup(c) ==
    /\ conn[c].state = "accepted"
    /\ LET hist == get_chat_history(messages, conn[c].chat_id, HistoryLimit)
       IN outbox' = [d \in Conns |->
              IF d = c
              THEN outbox[d] \o HistoryFrames(hist, conn[c].user)
                   \o <<[type |-> "connection_established", chat_id |-> conn[c].chat_id]>>
              ELSE IF d \in groups[conn[c].chat_id] /\ conn[d].state = "joined"
              THEN outbox[d] \o HistoryFrames(hist, conn[c].user)
              ELSE outbox[d]]
    /\ conn' = [conn EXCEPT ![c].state = "joined"]
    /\ UNCHANGED <<chats, messages, files, groups, inbox, clock>>
    /\ UNCHANGED rest

\* The rest of connect: send_chat_history, then connection_established.
\* limit is the argument of get_chat_history.
SendHistoryLimit(c, limit) ==
    /\ conn[c].state = "accepted"
    /\ LET hist == get_chat_history(messages, conn[c].chat_id, limit)
       IN outbox' = [outbox EXCEPT ![c] =
              @ \o HistoryFrames(hist, conn[c].user)
                \o <<[type |-> "connection_established", chat_id |-> conn[c].chat_id]>>]
    /\ conn' = [conn EXCEPT ![c].state = "joined"]
    /\ UNCHANGED <<chats, messages, files, groups, inbox, clock>>
    /\ UNCHANGED rest

\* send_chat_history calls get_chat_history() with its default limit
SendHistory(c) == SendHistoryLimit(c, HistoryLimit)

\* connect passes the three checks and then raises inside its try block:
\* at group_add (added = FALSE) or after it, at accept, send_chat_history or
\* send (added = TRUE); the except branch closes with 1011
ConnectError(c, u, chat_id, added) ==
    /\ conn[c].state = "new"
    /\ \A d \in Conns : d < c => conn[d].state # "new"
    /\ u # AnonymousId
    /\ get_chat(chats, chat_id) # NoChat
    /\ ~NotParticipant(get_chat(chats, chat_id), u)
    /\ conn' = [conn EXCEPT ![c] = [state |-> "failed", user |-> u,
                                    chat_id |-> chat_id, close_code |-> CloseInternalError]]
    /\ groups' = [groups EXCEPT ![chat_id] = IF added THEN @ \cup {c} ELSE @]
    /\ UNCHANGED <<chats, messages, files, inbox, outbox, clock>>
    /\ UNCHANGED rest

\* ---------------------------------------------- ChatConsumer.disconnect
\* group_discard, after which the consumer and its channel are gone
Disconnect(c) ==
    /\ conn[c].state \in {"joined", "rejected", "failed"}
    /\ groups' = [groups EXCEPT ![conn[c].chat_id] = @ \ {c}]
    /\ conn' = [conn EXCEPT ![c] = ClosedConn]
    /\ inbox' = [inbox EXCEPT ![c] = <<>>]
    /\ outbox' = [outbox EXCEPT ![c] = <<>>]
    /\ UNCHANGED <<chats, messages, files, clock>>
    /\ UNCHANGED rest

\* ------------------------------------------------ UserChatsConsumer
\* connect: an anonymous user is closed with 4001 before user_group_name is
\* set; anyone else is named, added to user_<id>_chats, accepted and greeted
UConnect(c, u) ==
    /\ uconn[c].state = "new"
    /\ \A d \in Conns : d < c => uconn[d].state # "new"
    /\ IF u = AnonymousId
       THEN /\ uconn' = [uconn EXCEPT ![c].state = "rejected", ![c].user = u]
            /\ UNCHANGED ugroups
       ELSE /\ uconn' = [uconn EXCEPT ![c].state = "joined", ![c].user = u,
                                      ![c].named = TRUE,
                                      ![c].outbox = Append(@,
                                          [type |-> "connection_established", user_id |-> u])]
            /\ ugroups' = [ugroups EXCEPT ![u] = @ \cup {c}]
    /\ UNCHANGED <<chats, messages, files, conn, groups, inbox, outbox, clock,
                   requests, notices, task, gate, reads>>

\* connect raises inside its try block, at group_add (added = FALSE) or after
\* it; the except branch closes with 1011
UConnectError(c, u, added) ==
    /\ uconn[c].state = "new"
    /\ \A d \in Conns : d < c => uconn[d].state # "new"
    /\ u # AnonymousId
    /\ uconn' = [uconn EXCEPT ![c].state = "failed", ![c].user = u, ![c].named = TRUE]
    /\ ugroups' = [ugroups EXCEPT ![u] = IF added THEN @ \cup {c} ELSE @]
    /\ UNCHANGED <<chats, messages, files, conn, groups, inbox, outbox, clock,
                   requests, notices, task, gate, reads>>

\* disconnect: group_discard(self.user_group_name, ...); reading the attribute
\* raises AttributeError when connect never set it
UDisconnect(c) ==
    /\ uconn[c].state \in {"joined", "rejected", "failed"}
    /\ IF uconn[c].named
       THEN /\ ugroups' = [ugroups EXCEPT ![uconn[c].user] = @ \ {c}]
            /\ uconn' = [uconn EXCEPT ![c] = [NewUserConn EXCEPT !.state = "closed"]]
       ELSE /\ uconn' = [uconn EXCEPT ![c] =
                   [NewUserConn EXCEPT !.state = "closed", !.raised = TRUE]]
            /\ UNCHANGED ugroups
    /\ UNCHANGED <<chats, messages, files, conn, groups, inbox, outbox, clock,
                   requests, notices, task, gate, reads>>

\* channel_layer.group_send to user_<u>_chats: the event is queued for every
\* channel of the group
user_group_send(uc, ug, u, event) ==
    [c \in Conns |-> IF c \in ug[u] THEN [uc[c] EXCEPT !.inbox = Append(@, event)]
                     ELSE uc[c]]

\* chat_created / chat_updated / chat_deleted: the consumer takes the next
\* queued event and sends it to its client
UDeliver(c) ==
    /\ uconn[c].state = "joined"
    /\ uconn[c].inbox # <<>>
    /\ uconn' = [uconn EXCEPT ![c].inbox = Tail(@),
                              ![c].outbox = Append(@, Head(uconn[c].inbox))]
    /\ UNCHANGED <<chats, messages, files, conn, groups, inbox, outbox, clock,
                   requests, notices, task, ugroups, gate, reads>>

\* ------------------------------------------------ inbound frames (inputs)
Contents == {"", "hi"}
MessageTypes == {"text", "image", "file"}
FileNames == {<<>>, <<"r">>, <<"r", ".">>, <<"r", ".", "t">>}
NoData == [given |-> FALSE, valid |-> FALSE]
BadData == [given |-> TRUE, valid |-> FALSE]
GoodData == [given |-> TRUE, valid |-> TRUE]
FileDatas == {NoData, BadData, GoodData}
MissingPath == <<"messages/", "n">>

\* the file_path values a client can put into a frame
ClientPaths == {NoPath, MissingPath} \cup {f.path : f \in files}

\* chat_message frames that carry no file fields
TextFrames ==
    [json : {TRUE}, type : {"chat_message"}, content : Contents,
     message_type : {"text"}, file_path : {NoPath},
     file_data : {NoData}, file_name : {<<>>}]

\* chat_message frames with file fields
FileFrames ==
    [json : {TRUE}, type : {"chat_message"}, content : Contents,
     message_type : MessageTypes, file_path : ClientPaths,
     file_data : FileDatas, file_name : FileNames]

TypingFrames == [json : {TRUE}, type : {"typing"}, is_typing : BOOLEAN]

ReadReceiptFrames ==
    [json : {TRUE}, type : {"read_receipt"}, message_id : 0..(Len(messages) + 1)]

\* an object of an unhandled type, an object without type (data.get gives
\* None), text that is not JSON, and JSON that is not an object
OtherFrames ==
    {[json |-> TRUE, type |-> "ping"], [json |-> TRUE, type |-> "None"],
     [json |-> FALSE], [json |-> TRUE, object |-> FALSE]}

\* -------------------------------------- ChatConsumer._save_base64_file_sync
\* the staged path, NoPath when base64 decoding fails
StagedPath(file_data, file_name, now) ==
    IF ~file_data.valid THEN NoPath
    ELSE LET se == splitext(file_name)
         IN <<"messages/">> \o se[1] \o <<"_", Stamp(now)>> \o se[2]

\* open(full_file_path, 'wb').write(file_content)
WriteFile(fs, p, d) == {f \in fs : f.path # p} \cup {[path |-> p, data |-> d]}

\* FileSystemStorage.get_available_name for upload_to='messages/'
AvailableName(fs, filename, now) ==
    LET p == <<"messages/">> \o filename
        se == splitext(p)
    IN IF exists(fs, p) THEN se[1] \o <<"_", "R", Stamp(now)>> \o se[2] ELSE p

\* ------------------------------------------------ ChatConsumer.save_message
\* the Message row created for (chat_id, sender), NoMessage when refused
NoMessage == [id |-> 0]

NewMessage(ms, chat_id, sender, content, message_type, path, task_id, now) ==
    [id |-> Len(ms) + 1, chat |-> chat_id, sender |-> sender, content |-> content,
     message_type |-> message_type, file_path |-> path, read_by |-> NoUser,
     read_at |-> 0, celery_task_id |-> task_id, created_at |-> now]

save_message(cs, ms, fs, chat_id, sender, content, message_type, file_field, now) ==
    LET chat == get_chat(cs, chat_id)
    IN IF chat = NoChat \/ NotParticipant(chat, sender) THEN NoMessage
       ELSE NewMessage(ms, chat_id, sender, content, message_type,
                IF file_field.given THEN AvailableName(fs, file_field.name, now) ELSE NoPath,
                NoTask, now)

\* ChatConsumer._read_file_and_create_contentfile
NoFileField == [given |-> FALSE]
read_file_and_create_contentfile(fs, p) ==
    IF exists(fs, p) THEN [given |-> TRUE, name |-> basename(p), data |-> DataAt(fs, p)]
    ELSE NoFileField

\* ------------------------------------------ ChatConsumer.handle_chat_message
handle_chat_message(c, data) ==
    LET user == conn[c].user
        upload == data.file_data.given /\ data.file_name # <<>>
        staged == IF upload THEN StagedPath(data.file_data, data.file_name, clock) ELSE NoPath
        file_path == IF upload THEN staged ELSE data.file_path
        fs1 == IF upload /\ staged # NoPath
               THEN WriteFile(files, staged, [frame |-> clock, by |-> user]) ELSE files
        file_field == IF file_path # NoPath
                      THEN read_file_and_create_contentfile(fs1, file_path) ELSE NoFileField
        message == save_message(chats, messages, fs1, conn[c].chat_id, user, data.content,
                                data.message_type, file_field, clock)
    IN IF upload /\ staged = NoPath
       THEN /\ outbox' = [outbox EXCEPT ![c] = Append(@, ErrorFrame("Failed to save file"))]
            /\ UNCHANGED <<messages, files, inbox>>
       ELSE IF data.content = "" /\ file_path = NoPath
       THEN /\ outbox' = [outbox EXCEPT ![c] =
                             Append(@, ErrorFrame("Message content or file is required"))]
            /\ files' = fs1
            /\ UNCHANGED <<messages, inbox>>
       ELSE IF message = NoMessage
       THEN /\ outbox' = [outbox EXCEPT ![c] = Append(@, ErrorFrame("Failed to save message"))]
            /\ files' = fs1
            /\ UNCHANGED <<messages, inbox>>
       ELSE /\ messages' = Append(messages, message)
            /\ files' = IF message.file_path # NoPath
                        THEN WriteFile(fs1, message.file_path, file_field.data) ELSE fs1
            /\ inbox' = group_send(inbox, GroupOf(conn[c].chat_id),
                            [type |-> "chat_message",
                             message |-> format_message_data(message, user)])
            /\ UNCHANGED outbox

\* -------------------------------------- ChatConsumer.handle_typing_indicator
handle_typing_indicator(c, data) ==
    /\ inbox' = group_send(inbox, GroupOf(conn[c].chat_id),
                    [type |-> "typing_indicator", user |-> conn[c].user,
                     is_typing |-> data.is_typing])
    /\ UNCHANGED <<messages, files, outbox>>

\* ----------------------------------------- ChatConsumer.mark_message_as_read
\* a mark_message_as_read without the sender test
mark_message_as_read_NoSenderTest(cs, ms, message_id, user, now) ==
    IF message_id \notin 1..Len(ms) THEN ms
    ELSE LET m == ms[message_id]
         IN IF NotParticipant(get_chat(cs, m.chat), user) THEN ms
            ELSE IF m.read_by = NoUser
            THEN [ms EXCEPT ![message_id].read_by = user, ![message_id].read_at = now]
            ELSE ms

\* the Message rows after mark_message_as_read(message_id, user) at time now
mark_message_as_read(cs, ms, message_id, user, now) ==
    IF message_id \notin 1..Len(ms) THEN ms
    ELSE LET m == ms[message_id]
         IN IF NotParticipant(get_chat(cs, m.chat), user) THEN ms
            ELSE IF m.sender # user /\ m.read_by = NoUser
            THEN [ms EXCEPT ![message_id].read_by = user, ![message_id].read_at = now]
            ELSE ms

\* ------------------------------------------ ChatConsumer.handle_read_receipt
\* a handler that announces the receipt only when the message was marked
handle_read_receipt_MarkedOnly(c, data) ==
    IF data.message_id # 0
    THEN LET ms == mark_message_as_read(chats, messages, data.message_id,
                                        conn[c].user, clock)
         IN /\ messages' = ms
            /\ inbox' = IF ms # messages
                        THEN group_send(inbox, GroupOf(conn[c].chat_id),
                                 [type |-> "read_receipt", message_id |-> data.message_id,
                                  read_by |-> conn[c].user])
                        ELSE inbox
            /\ UNCHANGED <<files, outbox>>
    ELSE UNCHANGED <<messages, files, inbox, outbox>>

\* a read receipt that is echoed to its sender at once instead of through the
\* sender's own channel
handle_read_receipt_DirectEcho(c, data) ==
    IF data.message_id # 0
    THEN /\ messages' = mark_message_as_read(chats, messages, data.message_id,
                                             conn[c].user, clock)
         /\ inbox' = group_send(inbox, GroupOf(conn[c].chat_id) \ {c},
                         [type |-> "read_receipt", message_id |-> data.message_id,
                          read_by |-> conn[c].user])
         /\ outbox' = [outbox EXCEPT ![c] = Append(@,
                         [type |-> "read_receipt", message_id |-> data.message_id,
                          read_by |-> conn[c].user])]
         /\ UNCHANGED files
    ELSE UNCHANGED <<messages, files, inbox, outbox>>

handle_read_receipt(c, data) ==
    IF data.message_id # 0
    THEN /\ messages' = mark_message_as_read(chats, messages, data.message_id,
                                             conn[c].user, clock)
         /\ inbox' = group_send(inbox, GroupOf(conn[c].chat_id),
                         [type |-> "read_receipt", message_id |-> data.message_id,
                          read_by |-> conn[c].user])
         /\ UNCHANGED <<files, outbox>>
    ELSE UNCHANGED <<messages, files, inbox, outbox>>

\* ------------------------------------------------- ChatConsumer.receive
\* a send_error that publishes the error to every connection of the chat's group
send_error_ToGroup(c, text) ==
    /\ outbox' = [d \in Conns |->
           IF d = c \/ d \in GroupOf(conn[c].chat_id)
           THEN Append(outbox[d], ErrorFrame(text)) ELSE outbox[d]]
    /\ UNCHANGED <<messages, files, inbox>>

\* self.send(text_data=json.dumps({'type': 'error', 'message': text}))
send_error(c, text) ==
    /\ outbox' = [outbox EXCEPT ![c] = Append(@, ErrorFrame(text))]
    /\ UNCHANGED <<messages, files, inbox>>

\* a receive whose final else branch does nothing
handle_unknown_Silent(c, data) == UNCHANGED <<messages, files, inbox, outbox>>

\* the final else branch of receive: the type is none of the three handled
handle_unknown(c, data) == send_error(c, "Invalid message type")

\* the frame is JSON but not an object: data.get raises AttributeError, which
\* the except Exception branch reports with str(e)
IsNotObject(text_data) == "object" \in DOMAIN text_data /\ ~text_data.object

Receive(c, text_data) ==
    /\ conn[c].state = "joined"
    /\ clock' = clock + 1
    /\ IF ~text_data.json THEN send_error(c, "Invalid JSON format")
       ELSE IF IsNotObject(text_data) THEN send_error(c, "AttributeError")
       ELSE IF text_data.type = "chat_message" THEN handle_chat_message(c, text_data)
       ELSE IF text_data.type = "typing" THEN handle_typing_indicator(c, text_data)
       ELSE IF text_data.type = "read_receipt" THEN handle_read_receipt(c, text_data)
       ELSE handle_unknown(c, text_data)
    /\ UNCHANGED <<chats, conn, groups>>
    /\ UNCHANGED rest

\* the frames of one run are bounded: the clock counts the frames handled
ReceiveChatMessage(c) == clock <= MaxFrames /\ \E f \in TextFrames : Receive(c, f)
ReceiveTyping(c) == clock <= MaxFrames /\ \E f \in TypingFrames : Receive(c, f)
ReceiveReadReceipt(c) == clock <= MaxFrames /\ \E f \in ReadReceiptFrames : Receive(c, f)
ReceiveOther(c) == clock <= MaxFrames /\ \E f \in OtherFrames : Receive(c, f)
ReceiveFile(c) == clock <= MaxFrames /\ \E f \in FileFrames : Receive(c, f)

\* --------------------------- group event handlers (chat_message, typing_indicator,
\* read_receipt): the consumer takes the next event of its channel
chat_message(c, event) ==
    IF event.message.sender # conn[c].user
    THEN <<ChatMessageFrame(event.message)>> ELSE <<>>

\* the typing handler without its identity filter
typing_indicator_NoFilter(c, event) ==
    <<[type |-> "typing_indicator", user |-> event.user, is_typing |-> event.is_typing]>>

typing_indicator(c, event) ==
    IF event.user # conn[c].user
    THEN <<[type |-> "typing_indicator", user |-> event.user, is_typing |-> event.is_typing]>>
    ELSE <<>>

read_receipt(c, event) ==
    <<[type |-> "read_receipt", message_id |-> event.message_id, read_by |-> event.read_by]>>

Dispatch(c, event) ==
    IF event.type = "chat_message" THEN chat_message(c, event)
    ELSE IF event.type = "typing_indicator" THEN typing_indicator(c, event)
    ELSE read_receipt(c, event)

\* the event types ChatConsumer has a handler method for
HandledTypes == {"chat_message", "typing_indicator", "read_receipt"}

\* The consumer takes the next event of its channel and calls the method named
\* after its type; for a type without method the dispatch raises ValueError,
\* which ends the consumer without disconnect(): nothing is sent, and the
\* channel stays in the group
Deliver(c) ==
    /\ conn[c].state = "joined"
    /\ inbox[c] # <<>>
    /\ IF Head(inbox[c]).type \in HandledTypes
       THEN /\ outbox' = [outbox EXCEPT ![c] = @ \o Dispatch(c, Head(inbox[c]))]
            /\ UNCHANGED conn
       ELSE /\ conn' = [conn EXCEPT ![c].state = "crashed"]
            /\ UNCHANGED outbox
    /\ inbox' = [inbox EXCEPT ![c] = Tail(@)]
    /\ UNCHANGED <<chats, messages, files, groups, clock>>
    /\ UNCHANGED rest

\* ------------------------------------------------------------------ Spec
\* the (identity, chat id) pairs of connection attempts: both participants, an
\* outsider, an anonymous identity, and a chat id that resolves to no row
ConnectInputs == {<<1, 1>>, <<2, 1>>, <<3, 1>>, <<AnonymousId, 1>>, <<1, 2>>}

Next ==
    \/ \E c \in Conns, i \in ConnectInputs : Connect(c, i[1], i[2])
    \/ \E c \in Conns : SendHistory(c)
    \/ \E c \in Conns : ReceiveChatMessage(c)
    \/ \E c \in Conns : ReceiveTyping(c)
    \/ \E c \in Conns : ReceiveReadReceipt(c)
    \/ \E c \in Conns : ReceiveOther(c)
    \/ \E c \in Conns : Deliver(c)
    \/ \E c \in Conns : Disconnect(c)

Spec == Init /\ [][Next]_vars

\* ------------------------------------------------------------- SpecLog
\* The chat already holds unread messages sent in earlier sessions;
\* connections join and send read receipts.
OldMessage(i, sender) ==
    [id |-> i, chat |-> 1, sender |-> sender, content |-> "old", message_type |-> "text",
     file_path |-> NoPath, read_by |-> NoUser, read_at |-> 0,
     celery_task_id |-> NoTask, created_at |-> i]

InitLogs ==
    UNION {{[i \in 1..n |-> OldMessage(i, snd[i])] : snd \in [1..n -> {1, 2}]} :
               n \in 0..MaxLog}

InitLog ==
    /\ chats = InitChats
    /\ messages \in InitLogs
    /\ files = {}
    /\ conn = [c \in Conns |-> NewConn]
    /\ groups = [g \in UrlChatIds |-> {}]
    /\ inbox = [c \in Conns |-> <<>>]
    /\ outbox = [c \in Conns |-> <<>>]
    /\ clock = Len(messages) + 1
    /\ Quiet

ConnectParticipant(c) == \E u \in {1, 2} : Connect(c, u, 1)

MarkRead(c) ==
    /\ clock <= Len(messages) + MaxFrames
    /\ \E f \in ReadReceiptFrames : Receive(c, f)

\* one connection slot for each participant's client
LogConns == {1, 2}

NextLog ==
    \/ \E c \in LogConns : ConnectParticipant(c)
    \/ \E c \in LogConns : SendHistory(c)
    \/ \E c \in LogConns : MarkRead(c)
    \/ \E c \in LogConns : Deliver(c)
    \/ \E c \in LogConns : Disconnect(c)

SpecLog == InitLog /\ [][NextLog]_vars

\* ChatSerializer.get_unread_count
get_unread_count(ms, chat_id, user) ==
    Cardinality({i \in 1..Len(ms) :
        ms[i].chat = chat_id /\ ms[i].sender # user /\ ms[i].read_by = NoUser})

\* ------------------------------------------------------------ SpecHistory
\* get_chat_history applied to every stored log of at most MaxLog messages
\* with every limit up to MaxLimit.
Limits == 1..MaxLimit

FetchHistory(c) == \E limit \in Limits : SendHistoryLimit(c, limit)

NextHistory ==
    \/ \E c \in LogConns : ConnectParticipant(c)
    \/ \E c \in LogConns : FetchHistory(c)
    \/ \E c \in LogConns : Disconnect(c)

SpecHistory == InitLog /\ [][NextHistory]_vars

\* ------------------------------------------------------------ SpecCreate
\* POST /api/chats/ : ChatCreateView.perform_create -> ChatSerializer.create.
\* Each query of the serializer and the INSERT are separate database
\* statements (no transaction, no lock), so concurrent requests interleave
\* between them.
HttpCreated == 201
HttpServerError == 500
HttpOk == 200
HttpNoContent == 204

\* request.user = u posts user2_id = v
PostChat(r, u, v) ==
    /\ requests[r].pc = "idle"
    /\ \A q \in Reqs : q < r => requests[q].pc # "idle"
    /\ requests' = [requests EXCEPT ![r] =
           [pc |-> "forward", user |-> u, user2_id |-> v, chat |-> 0, status |-> 0]]
    /\ UNCHANGED <<chats, messages, files, conn, groups, inbox, outbox, clock, notices, task, uconn, ugroups, gate, reads>>

\* Chat.objects.filter(user1=a, user2=b).first(): the id of the row, 0 for None
FirstChat(cs, a, b) ==
    LET found == {ch.id : ch \in {x \in cs : x.user1 = a /\ x.user2 = b}}
    IN IF found = {} THEN 0 ELSE CHOOSE i \in found : \A k \in found : i <= k

\* chat = Chat.objects.filter(user1=user1, user2=user2).first()
LookupForward(r) ==
    /\ requests[r].pc = "forward"
    /\ LET chat == FirstChat(chats, requests[r].user, requests[r].user2_id)
       IN requests' = [requests EXCEPT ![r].chat = chat,
                                       ![r].pc = IF chat = 0 THEN "reverse" ELSE "notify"]
    /\ UNCHANGED <<chats, messages, files, conn, groups, inbox, outbox, clock, notices, task, uconn, ugroups, gate, reads>>

\* if not chat: chat = Chat.objects.filter(user1=user2, user2=user1).first()
LookupReverse(r) ==
    /\ requests[r].pc = "reverse"
    /\ LET chat == FirstChat(chats, requests[r].user2_id, requests[r].user)
       IN requests' = [requests EXCEPT ![r].chat = chat,
                                       ![r].pc = IF chat = 0 THEN "save" ELSE "notify"]
    /\ UNCHANGED <<chats, messages, files, conn, groups, inbox, outbox, clock, notices, task, uconn, ugroups, gate, reads>>

\* Chat.save: user1 and user2 are swapped when user1.id > user2.id
Canonical(a, b) == IF a > b THEN <<b, a>> ELSE <<a, b>>

\* the constraints of Chat.Meta: check_user1_lt_user2 and unique_user_pair
ConstraintsAllow(cs, a, b) ==
    /\ a < b
    /\ ~\E ch \in cs : ch.user1 = a /\ ch.user2 = b

NextChatId(cs) == Cardinality(cs) + 1

\* super().create(validated_data): INSERT; an IntegrityError is not caught
\* anywhere and ends the request with a server error
SaveChat(r) ==
    /\ requests[r].pc = "save"
    /\ LET pair == Canonical(requests[r].user, requests[r].user2_id)
       IN IF ConstraintsAllow(chats, pair[1], pair[2])
          THEN /\ chats' = chats \cup {[id |-> NextChatId(chats), user1 |-> pair[1],
                                         user2 |-> pair[2], is_active |-> TRUE]}
               /\ requests' = [requests EXCEPT ![r].chat = NextChatId(chats),
                                               ![r].pc = "notify"]
          ELSE /\ requests' = [requests EXCEPT ![r].pc = "done",
                                               ![r].status = HttpServerError]
               /\ UNCHANGED chats
    /\ UNCHANGED <<messages, files, conn, groups, inbox, outbox, clock, notices, task, uconn, ugroups, gate, reads>>

\* the tail of perform_create / perform_update / perform_destroy: two group_send
\* calls inside try/except Exception, to user_<user1>_chats and then to
\* user_<user2>_chats; sent is the number of them that went through before the
\* channel layer raised. A notification that lets the failure end the request:
notify_participants_Surfacing(r, event, sent, status) ==
    /\ LET ch == get_chat(chats, requests[r].chat)
           to == IF sent = 0 THEN {} ELSE IF sent = 1 THEN {ch.user1} ELSE {ch.user1, ch.user2}
           ev == [type |-> event, chat |-> ch.id]
           first == IF sent >= 1 THEN user_group_send(uconn, ugroups, ch.user1, ev) ELSE uconn
       IN /\ notices' = notices \cup {[type |-> event, user |-> u, chat |-> ch.id] : u \in to}
          /\ uconn' = IF sent = 2 THEN user_group_send(first, ugroups, ch.user2, ev) ELSE first
    /\ requests' = [requests EXCEPT ![r].pc = "done",
                                    ![r].status = IF sent < 2 THEN HttpServerError ELSE status]
    /\ UNCHANGED <<chats, messages, files, conn, groups, inbox, outbox, clock, task,
                   ugroups, gate, reads>>

\* the exception is logged and the request ends with its normal status
notify_participants(r, event, sent, status) ==
    /\ LET ch == get_chat(chats, requests[r].chat)
           to == IF sent = 0 THEN {} ELSE IF sent = 1 THEN {ch.user1} ELSE {ch.user1, ch.user2}
           ev == [type |-> event, chat |-> ch.id]
           first == IF sent >= 1 THEN user_group_send(uconn, ugroups, ch.user1, ev) ELSE uconn
       IN /\ notices' = notices \cup {[type |-> event, user |-> u, chat |-> ch.id] : u \in to}
          /\ uconn' = IF sent = 2 THEN user_group_send(first, ugroups, ch.user2, ev) ELSE first
    /\ requests' = [requests EXCEPT ![r].pc = "done", ![r].status = status]
    /\ UNCHANGED <<chats, messages, files, conn, groups, inbox, outbox, clock, task,
                   ugroups, gate, reads>>

\* perform_create after serializer.save()
NotifyCreated(r, sent) ==
    /\ requests[r].pc = "notify"
    /\ notify_participants(r, "chat_created", sent, HttpCreated)

\* ChatUpdateView: get_object() finds the chat among the caller's chats, then
\* serializer.save(): ModelSerializer.update sets user2_id, Chat.save() swaps the
\* pair into order, and the constraints of Chat.Meta decide whether the UPDATE
\* goes through
PutChat(r, u, chat_id, v) ==
    /\ requests[r].pc = "idle"
    /\ \A q \in Reqs : q < r => requests[q].pc # "idle"
    /\ get_chat(chats, chat_id) # NoChat
    /\ ~NotParticipant(get_chat(chats, chat_id), u)
    /\ LET ch == get_chat(chats, chat_id)
           pair == Canonical(ch.user1, v)
       IN IF ConstraintsAllow(chats \ {ch}, pair[1], pair[2])
          THEN /\ chats' = (chats \ {ch}) \cup
                       {[ch EXCEPT !.user1 = pair[1], !.user2 = pair[2]]}
               /\ requests' = [requests EXCEPT ![r] =
                      [pc |-> "notify_update", user |-> u, user2_id |-> v,
                       chat |-> chat_id, status |-> 0]]
          ELSE /\ requests' = [requests EXCEPT ![r] =
                      [pc |-> "done", user |-> u, user2_id |-> v,
                       chat |-> chat_id, status |-> HttpServerError]]
               /\ UNCHANGED chats
    /\ UNCHANGED <<messages, files, conn, groups, inbox, outbox, clock, notices, task,
                   uconn, ugroups, gate, reads>>

\* perform_update after serializer.save()
NotifyUpdated(r, sent) ==
    /\ requests[r].pc = "notify_update"
    /\ notify_participants(r, "chat_updated", sent, HttpOk)

\* ChatDeleteView: get_object(), then instance.delete(), which
\* TimeStampedModel turns into is_active = False and save()
DeleteChat(r, u, chat_id) ==
    /\ requests[r].pc = "idle"
    /\ \A q \in Reqs : q < r => requests[q].pc # "idle"
    /\ get_chat(chats, chat_id) # NoChat
    /\ ~NotParticipant(get_chat(chats, chat_id), u)
    /\ LET ch == get_chat(chats, chat_id)
       IN chats' = (chats \ {ch}) \cup {[ch EXCEPT !.is_active = FALSE]}
    /\ requests' = [requests EXCEPT ![r] =
           [pc |-> "notify_delete", user |-> u, user2_id |-> NoUser,
            chat |-> chat_id, status |-> 0]]
    /\ UNCHANGED <<messages, files, conn, groups, inbox, outbox, clock, notices, task,
                   uconn, ugroups, gate, reads>>

\* perform_destroy after instance.delete()
NotifyDeleted(r, sent) ==
    /\ requests[r].pc = "notify_delete"
    /\ notify_participants(r, "chat_deleted", sent, HttpNoContent)

\* the chat rows a deployment can hold when the requests arrive
InitCreate ==
    /\ chats \in {{}, InitChats}
    /\ messages = <<>>
    /\ files = {}
    /\ conn = [c \in Conns |-> NewConn]
    /\ groups = [g \in UrlChatIds |-> {}]
    /\ inbox = [c \in Conns |-> <<>>]
    /\ outbox = [c \in Conns |-> <<>>]
    /\ clock = 1
    /\ Quiet

NextCreate ==
    \/ \E r \in Reqs, u \in Users, v \in Users : PostChat(r, u, v)
    \/ \E r \in Reqs : LookupForward(r)
    \/ \E r \in Reqs : LookupReverse(r)
    \/ \E r \in Reqs : SaveChat(r)
    \/ \E r \in Reqs, sent \in 0..2 : NotifyCreated(r, sent)

SpecCreate == InitCreate /\ [][NextCreate]_vars

\* ------------------------------------------------------------ SpecNotify
\* The three REST mutations of a chat with the notification stream of its
\* participants attached, under a channel layer that may raise on any
\* group_send.
NotifyUsers == {1, 2}

NextNotify ==
    \/ \E c \in LogConns, u \in NotifyUsers : UConnect(c, u)
    \/ \E c \in LogConns : UDeliver(c)
    \/ \E r \in Reqs : PostChat(r, 2, 3)
    \/ \E r \in Reqs : LookupForward(r)
    \/ \E r \in Reqs : LookupReverse(r)
    \/ \E r \in Reqs : SaveChat(r)
    \/ \E r \in Reqs, sent \in 0..2 : NotifyCreated(r, sent)
    \/ \E r \in Reqs, v \in {2, 3} : PutChat(r, 1, 1, v)
    \/ \E r \in Reqs, sent \in 0..2 : NotifyUpdated(r, sent)
    \/ \E r \in Reqs : DeleteChat(r, 2, 1)
    \/ \E r \in Reqs, sent \in 0..2 : NotifyDeleted(r, sent)

SpecNotify == Init /\ [][NextNotify]_vars

\* -------------------------------------------------------------- SpecTask
\* chat/tasks.py process_and_save_file_task and chat/image_utils.py
\* validate_and_process_file, one action per step of the function.
ALLOWED_IMAGE_EXTS ==
    {<<".", "jpg">>, <<".", "jpeg">>, <<".", "png">>, <<".", "webp">>,
     <<".", "heic">>, <<".", "heif">>}
ALLOWED_DOC_EXTS ==
    {<<".", "pdf">>, <<".", "doc">>, <<".", "docx">>, <<".", "xls">>, <<".", "xlsx">>,
     <<".", "ppt">>, <<".", "pptx">>, <<".", "txt">>}

\* str.lower on the tokens of an extension
LowerToken(t) == IF t = "PDF" THEN "pdf" ELSE IF t = "JPG" THEN "jpg" ELSE t
lower(s) == [i \in 1..Len(s) |-> LowerToken(s[i])]

\* validate_file_type: <<file_type, ext>>, file_type "none" for None;
\* Image.verify succeeds exactly on the files whose bytes are an image
validate_file_type(fs, p) ==
    LET ext == lower(splitext(p)[2])
    IN IF ext \in ALLOWED_IMAGE_EXTS
       THEN IF DataAt(fs, p).verified THEN <<"image", ext>> ELSE <<"none", ext>>
       ELSE IF ext \in ALLOWED_DOC_EXTS THEN <<"document", ext>> ELSE <<"none", ext>>

\* the bytes of a WEBP file of n bytes written by the encoder
WebpBytes(n) == [size |-> n, verified |-> TRUE, encodable |-> TRUE, pass1 |-> n, pass2 |-> n]

\* compress_image: size 0 stands for the None result
compress_image(d, target_size) ==
    IF ~d.encodable THEN [raised |-> TRUE, size |-> 0]
    ELSE IF d.pass1 <= target_size THEN [raised |-> FALSE, size |-> d.pass1]
    ELSE IF d.pass2 <= MAX_FILE_SIZE THEN [raised |-> FALSE, size |-> d.pass2]
    ELSE [raised |-> FALSE, size |-> 0]

\* cleanup: os.remove when the path exists
cleanup(fs, p) == {f \in fs : f.path # p}

\* image_utils.format_message_data
pipeline_format_message_data(m) ==
    [id |-> m.id, sender |-> m.sender, content |-> m.content,
     message_type |-> m.message_type, file_path |-> m.file_path,
     celery_task_id |-> m.celery_task_id, read_by |-> m.read_by, read_at |-> m.read_at]

\* the job as the worker holds it: the arguments of the task, self.request.id
\* and self.request.retries, and the locals of the run in progress
NewRun(t) ==
    [t EXCEPT !.pc = "exists", !.file_type = "none", !.ext = <<>>, !.file_size = 0,
              !.processed_path = NoPath, !.reason = "", !.notified = {}]

\* a failing branch: the reason to announce with upload_failed
Failing(t, reason) == [t EXCEPT !.pc = "fail", !.reason = reason]

TaskUnchanged == UNCHANGED <<chats, conn, groups, outbox, requests, notices, uconn, ugroups, gate, reads>>

\* if not os.path.exists(full_path)
CheckExists ==
    /\ task.pc = "exists"
    /\ task' = IF exists(files, task.file_path) THEN [task EXCEPT !.pc = "classify"]
               ELSE Failing(task, "file_not_found")
    /\ UNCHANGED <<messages, files, inbox, clock>>
    /\ TaskUnchanged

\* file_type, ext = validate_file_type(full_path)
Classify ==
    /\ task.pc = "classify"
    /\ LET v == validate_file_type(files, task.file_path)
       IN IF v[1] = "none"
          THEN /\ files' = cleanup(files, task.file_path)
               /\ task' = Failing(task, "unsupported_type")
          ELSE /\ task' = [task EXCEPT !.pc = "size", !.file_type = v[1], !.ext = v[2]]
               /\ UNCHANGED files
    /\ UNCHANGED <<messages, inbox, clock>>
    /\ TaskUnchanged

\* file_size = os.path.getsize(full_path); the size gate rejects documents only
SizeGate ==
    /\ task.pc = "size"
    /\ LET file_size == IF exists(files, task.file_path)
                        THEN DataAt(files, task.file_path).size ELSE 0
       IN IF file_size > MAX_FILE_SIZE /\ task.file_type = "document"
          THEN /\ files' = cleanup(files, task.file_path)
               /\ task' = Failing(task, "file_too_large")
          ELSE /\ task' = [task EXCEPT !.pc = "normalize", !.file_size = file_size,
                                       !.processed_path = task.file_path]
               /\ UNCHANGED files
    /\ UNCHANGED <<messages, inbox, clock>>
    /\ TaskUnchanged

\* the path of the re-encoded image: messages/<base_name>.webp
WebpPath(p) == <<"messages/">> \o splitext(basename(p))[1] \o <<".", "webp">>

\* if file_type == 'image' and (file_size > MAX_IMAGE_SIZE or ext != '.webp')
Normalize ==
    /\ task.pc = "normalize"
    /\ IF task.file_type = "image"
          /\ (task.file_size > MAX_IMAGE_SIZE \/ task.ext # <<".", "webp">>)
       THEN IF ~exists(files, task.file_path)
            THEN /\ task' = Failing(task, "image_unprocessable")
                 /\ UNCHANGED files
            ELSE LET compressed == compress_image(DataAt(files, task.file_path),
                                                  MAX_IMAGE_SIZE)
                     new_path == WebpPath(task.file_path)
                 IN IF compressed.raised
                    THEN /\ files' = cleanup(files, task.file_path)
                         /\ task' = Failing(task, "image_unprocessable")
                    ELSE IF compressed.size = 0
                    THEN /\ files' = cleanup(files, task.file_path)
                         /\ task' = Failing(task, "file_too_large")
                    ELSE /\ files' = WriteFile(
                                IF task.file_path # new_path
                                THEN cleanup(files, task.file_path) ELSE files,
                                new_path, WebpBytes(compressed.size))
                         /\ task' = [task EXCEPT !.pc = "commit",
                                                 !.processed_path = new_path]
       ELSE /\ task' = [task EXCEPT !.pc = "commit"]
            /\ UNCHANGED files
    /\ UNCHANGED <<messages, inbox, clock>>
    /\ TaskUnchanged

\* Chat.objects.get, User.objects.get, Message.objects.create
Commit ==
    /\ task.pc = "commit"
    /\ clock' = clock + 1
    /\ IF get_chat(chats, task.chat_id) = NoChat \/ task.sender_id \notin Users
       THEN /\ files' = cleanup(files, task.processed_path)
            /\ task' = Failing(task, IF get_chat(chats, task.chat_id) = NoChat
                                     THEN "chat_not_found" ELSE "user_not_found")
            /\ UNCHANGED messages
       ELSE /\ messages' = Append(messages,
                   NewMessage(messages, task.chat_id, task.sender_id, task.content, "file",
                              task.processed_path, task.task_id, clock))
            /\ task' = [task EXCEPT !.pc = "announce"]
            /\ UNCHANGED files
    /\ UNCHANGED inbox
    /\ TaskUnchanged

\* notify_websocket(chat_id, 'chat_message', ...) inside the try block: when the
\* channel layer raises, except Exception removes the file and reports
\* database_error
Announce(ok) ==
    /\ task.pc = "announce"
    /\ IF ok
       THEN /\ inbox' = group_send(inbox, GroupOf(task.chat_id),
                    [type |-> "chat_message",
                     message |-> pipeline_format_message_data(messages[Len(messages)])])
            /\ task' = [task EXCEPT !.pc = "done", !.reason = "success"]
            /\ UNCHANGED files
       ELSE /\ files' = cleanup(files, task.processed_path)
            /\ task' = Failing(task, "database_error")
            /\ UNCHANGED inbox
    /\ UNCHANGED <<messages, clock>>
    /\ TaskUnchanged

\* a failure branch that asks for a retry after it has announced its reason
NotifyFailed_AskRetry(ok) ==
    /\ task.pc = "fail"
    /\ IF ok
       THEN /\ inbox' = group_send(inbox, GroupOf(task.chat_id),
                    [type |-> "upload_failed", reason |-> task.reason])
            /\ task' = [task EXCEPT !.pc = "except", !.notified = @ \cup {task.reason}]
       ELSE /\ task' = [task EXCEPT !.pc = "except"]
            /\ UNCHANGED inbox
    /\ UNCHANGED <<messages, files, clock>>
    /\ TaskUnchanged

\* notify_websocket(chat_id, 'upload_failed', {'reason': reason}) and return; when
\* the channel layer raises, the exception leaves validate_and_process_file,
\* except for the file_too_large of an image, which is announced inside the
\* try block of the compression and is caught there
NotifyFailed(ok) ==
    /\ task.pc = "fail"
    /\ IF ok
       THEN /\ inbox' = group_send(inbox, GroupOf(task.chat_id),
                    [type |-> "upload_failed", reason |-> task.reason])
            /\ task' = [task EXCEPT !.pc = "done", !.notified = @ \cup {task.reason}]
       ELSE /\ task' = IF task.reason = "file_too_large" /\ task.file_type = "image"
                       THEN Failing(task, "image_unprocessable")
                       ELSE [task EXCEPT !.pc = "except"]
            /\ UNCHANGED inbox
    /\ UNCHANGED <<messages, files, clock>>
    /\ TaskUnchanged

\* the except branch of process_and_save_file_task: notify processing_error, then
\* self.retry, which runs the task again under the same id until max_retries
Retry(ok) ==
    /\ task.pc = "except"
    /\ IF ok
       THEN /\ inbox' = group_send(inbox, GroupOf(task.chat_id),
                    [type |-> "upload_failed", reason |-> "processing_error"])
            /\ task' = IF task.retries < max_retries
                       THEN [NewRun(task) EXCEPT !.retries = task.retries + 1]
                       ELSE [task EXCEPT !.pc = "done", !.reason = "error",
                                         !.notified = @ \cup {"processing_error"}]
       ELSE /\ task' = [task EXCEPT !.pc = "done", !.reason = "error"]
            /\ UNCHANGED inbox
    /\ UNCHANGED <<messages, files, clock>>
    /\ TaskUnchanged

\* the worker executes the job again under the same id: the run in progress was
\* lost with its worker, or the finished job was delivered once more
Redeliver ==
    /\ task.pc \notin {"none", "exists"}
    /\ task.runs < MaxRuns
    /\ task' = [NewRun(task) EXCEPT !.runs = task.runs + 1]
    /\ UNCHANGED <<messages, files, inbox, clock>>
    /\ TaskUnchanged

\* staged uploads: name, size and what the image library makes of the bytes
MiB == 1024 * 1024
Sizes == {1 * MiB, 3 * MiB, 11 * MiB}
JobExts == {<<>>, <<".", "pdf">>, <<".", "PDF">>, <<".", "exe">>,
            <<".", "webp">>, <<".", "jpg">>}
PlainBytes(n) == [size |-> n, verified |-> FALSE, encodable |-> FALSE, pass1 |-> 0, pass2 |-> 0]
ImageBytes ==
    {[size |-> n, verified |-> TRUE, encodable |-> FALSE, pass1 |-> 0, pass2 |-> 0] :
         n \in Sizes}
    \cup {d \in [size : Sizes, verified : {TRUE}, encodable : {TRUE},
                  pass1 : Sizes, pass2 : Sizes] : d.pass2 <= d.pass1}
JobBytes(ext) ==
    {PlainBytes(n) : n \in Sizes}
    \cup IF lower(ext) \in ALLOWED_IMAGE_EXTS THEN ImageBytes ELSE {}
JobPath(ext) == <<"messages/", "f">> \o ext
JobFiles == UNION {{[path |-> JobPath(e), data |-> d] : d \in JobBytes(e)} : e \in JobExts}

InitTask ==
    /\ chats = InitChats
    /\ messages = <<>>
    /\ conn = [c \in Conns |-> NewConn]
    /\ groups = [g \in UrlChatIds |-> {}]
    /\ inbox = [c \in Conns |-> <<>>]
    /\ outbox = [c \in Conns |-> <<>>]
    /\ clock = 1
    /\ requests = [r \in Reqs |-> IdleRequest]
    /\ notices = {}
    /\ uconn = [c \in Conns |-> NewUserConn]
    /\ ugroups = [u \in Users |-> {}]
    /\ gate = NoGate
    /\ reads = [c \in Conns |-> IdleRead]
    /\ \E f \in JobFiles, staged \in BOOLEAN, chat_id \in UrlChatIds :
           /\ files = IF staged THEN {f} ELSE {}
           /\ task = [pc |-> "exists", task_id |-> "t1", chat_id |-> chat_id,
                      sender_id |-> 1, file_path |-> f.path, content |-> "",
                      retries |-> 0, runs |-> 1, file_type |-> "none", ext |-> <<>>,
                      file_size |-> 0, processed_path |-> NoPath, reason |-> "",
                      notified |-> {}]

NextTask ==
    \/ CheckExists
    \/ Classify
    \/ SizeGate
    \/ Normalize
    \/ Commit
    \/ \E ok \in BOOLEAN : Announce(ok)
    \/ \E ok \in BOOLEAN : NotifyFailed(ok)
    \/ \E ok \in BOOLEAN : Retry(ok)
    \/ Redeliver

SpecTask == InitTask /\ [][NextTask]_vars

\* ------------------------------------------------------------ SpecUpload
\* participants of chat 1 send chat_message frames that carry file fields
NextUpload ==
    \/ \E c \in LogConns : ConnectParticipant(c)
    \/ \E c \in LogConns : SendHistory(c)
    \/ \E c \in LogConns : ReceiveFile(c)
    \/ \E c \in LogConns : Deliver(c)
    \/ \E c \in LogConns : Disconnect(c)

SpecUpload == Init /\ [][NextUpload]_vars

\* ------------------------------------------------------------ SpecFrames
\* participants of chat 1 send unhandled or malformed frames and text
\* messages, one frame more per run than in Spec, so that frames follow a
\* rejected frame on the same connection
FrameBudget == MaxFrames + 1

ReceiveOtherFrame(c) == clock <= FrameBudget /\ \E f \in OtherFrames : Receive(c, f)
ReceiveTextFrame(c) == clock <= FrameBudget /\ \E f \in TextFrames : Receive(c, f)

NextFrames ==
    \/ \E c \in LogConns : ConnectParticipant(c)
    \/ \E c \in LogConns : SendHistory(c)
    \/ \E c \in LogConns : ReceiveOtherFrame(c)
    \/ \E c \in LogConns : ReceiveTextFrame(c)
    \/ \E c \in LogConns : Deliver(c)
    \/ \E c \in LogConns : Disconnect(c)

SpecFrames == Init /\ [][NextFrames]_vars

\* ------------------------------------------------------------- SpecOrder
\* The three kinds of topic event issued by the two participants' connections
\* in any interleaving with the group handlers that relay them.
OrderBudget == FrameBudget + 1

\* one frame of each kind that ends in a group_send, and a receipt for every
\* message id
TopicFrames ==
    {f \in TextFrames : f.content = "hi"} \cup {f \in TypingFrames : f.is_typing}
    \cup {f \in ReadReceiptFrames : f.message_id # 0}

ReceiveTopicFrame(c) ==
    /\ clock <= OrderBudget
    /\ \E f \in TopicFrames : Receive(c, f)

NextOrder ==
    \/ \E c \in LogConns : ConnectParticipant(c)
    \/ \E c \in LogConns : SendHistory(c)
    \/ \E c \in LogConns : ReceiveTopicFrame(c)
    \/ \E c \in LogConns : Deliver(c)

SpecOrder == Init /\ [][NextOrder]_vars

\* ------------------------------------------------------------- SpecRetry
\* One delivery of the job with the retries that process_and_save_file_task
\* asks for; the worker runs a step whenever one is due.
NextRetry ==
    \/ CheckExists
    \/ Classify
    \/ SizeGate
    \/ Normalize
    \/ Commit
    \/ \E ok \in BOOLEAN : Announce(ok)
    \/ \E ok \in BOOLEAN : NotifyFailed(ok)
    \/ \E ok \in BOOLEAN : Retry(ok)

SpecRetry == InitTask /\ [][NextRetry]_vars /\ WF_vars(NextRetry)

\* -------------------------------------------------------------- SpecRace
\* handle_read_receipt as the three awaits it is made of, so that the database
\* work of two connections can interleave: mark_message_as_read reads the row
\* (Message.objects.get and the tests on it), message.save() writes every
\* field of the instance it read, and group_send announces the receipt.
BeginMarkRead(c, data) ==
    /\ conn[c].state = "joined"
    /\ reads[c].pc = "idle"
    /\ data.message_id # 0
    /\ clock <= Len(messages) + FrameBudget
    /\ clock' = clock + 1
    /\ LET user == conn[c].user
           marked == mark_message_as_read(chats, messages, data.message_id, user, clock)
       IN reads' = [reads EXCEPT ![c] =
              IF marked # messages
              THEN [pc |-> "save", message_id |-> data.message_id,
                    row |-> marked[data.message_id]]
              ELSE [pc |-> "send", message_id |-> data.message_id]]
    /\ UNCHANGED <<chats, messages, files, conn, groups, inbox, outbox,
                   requests, notices, task, uconn, ugroups, gate>>

\* message.save(): an UPDATE of all columns with the values of the instance
SaveMarkRead(c) ==
    /\ reads[c].pc = "save"
    /\ messages' = [messages EXCEPT ![reads[c].message_id] = reads[c].row]
    /\ reads' = [reads EXCEPT ![c] = [pc |-> "send", message_id |-> reads[c].message_id]]
    /\ UNCHANGED <<chats, files, conn, groups, inbox, outbox, clock,
                   requests, notices, task, uconn, ugroups, gate>>

\* the group_send of the read_receipt event
SendReceipt(c) ==
    /\ reads[c].pc = "send"
    /\ inbox' = group_send(inbox, GroupOf(conn[c].chat_id),
                    [type |-> "read_receipt", message_id |-> reads[c].message_id,
                     read_by |-> conn[c].user])
    /\ reads' = [reads EXCEPT ![c] = IdleRead]
    /\ UNCHANGED <<chats, messages, files, conn, groups, outbox, clock,
                   requests, notices, task, uconn, ugroups, gate>>

NextRace ==
    \/ \E c \in LogConns : ConnectParticipant(c)
    \/ \E c \in LogConns : SendHistory(c)
    \/ \E c \in LogConns, f \in ReadReceiptFrames : BeginMarkRead(c, f)
    \/ \E c \in LogConns : SaveMarkRead(c)
    \/ \E c \in LogConns : SendReceipt(c)
    \/ \E c \in LogConns : Deliver(c)

SpecRace == InitLog /\ [][NextRace]_vars

\* ------------------------------------------------------------ SpecMember
\* Two chats share participant 2: chat 1 of users 1 and 2, chat 2 of users 2
\* and 3, with MaxLog messages of earlier sessions between them.  Connections subscribe to
\* chat 1 and send frames while ChatUpdateView re-points chat 1 to another
\* second participant.
MemberChats == InitChats \cup {[id |-> 2, user1 |-> 2, user2 |-> 3, is_active |-> TRUE]}

\* (chat, sender) of a stored message
MemberAuthors == {<<1, 1>>, <<1, 2>>, <<2, 2>>, <<2, 3>>}

MemberLogs ==
    {[i \in 1..MaxLog |-> [OldMessage(i, a[i][2]) EXCEPT !.chat = a[i][1]]] :
         a \in [1..MaxLog -> MemberAuthors]}

InitMember ==
    /\ chats = MemberChats
    /\ messages \in MemberLogs
    /\ files = {}
    /\ conn = [c \in Conns |-> NewConn]
    /\ groups = [g \in UrlChatIds |-> {}]
    /\ inbox = [c \in Conns |-> <<>>]
    /\ outbox = [c \in Conns |-> <<>>]
    /\ clock = Len(messages) + 1
    /\ Quiet

\* the two frames that write to the Message rows
MemberFrames ==
    {f \in TextFrames : f.content = "hi"} \cup {f \in ReadReceiptFrames : f.message_id # 0}

ReceiveMemberFrame(c) ==
    /\ clock <= MaxLog + MaxFrames
    /\ \E f \in MemberFrames : Receive(c, f)

NextMember ==
    \/ \E c \in LogConns : ConnectParticipant(c)
    \/ \E c \in LogConns : SendHistory(c)
    \/ \E c \in LogConns : ReceiveMemberFrame(c)
    \/ \E c \in LogConns : Deliver(c)
    \/ \E r \in Reqs, v \in {2, 3} : PutChat(r, 1, 1, v)
    \/ \E r \in Reqs, sent \in 0..2 : NotifyUpdated(r, sent)

SpecMember == InitMember /\ [][NextMember]_vars

\* ------------------------------------------------------------ SpecAttach
\* MEDIA_ROOT already holds the attachment that user 3 uploaded to chat 2 in
\* an earlier session; participants of chat 1 send chat_message frames with
\* file fields.
EarlierPath == <<"messages/", "s", ".", "t">>
EarlierFile == [path |-> EarlierPath, data |-> [frame |-> 1, by |-> 3]]
EarlierMessage ==
    [OldMessage(1, 3) EXCEPT !.chat = 2, !.message_type = "file", !.file_path = EarlierPath]

InitAttach ==
    /\ chats = MemberChats
    /\ messages = <<EarlierMessage>>
    /\ files = {EarlierFile}
    /\ conn = [c \in Conns |-> NewConn]
    /\ groups = [g \in UrlChatIds |-> {}]
    /\ inbox = [c \in Conns |-> <<>>]
    /\ outbox = [c \in Conns |-> <<>>]
    /\ clock = Len(messages) + 1
    /\ Quiet

ReceiveAttachment(c) ==
    /\ clock <= FrameBudget
    /\ \E f \in FileFrames : Receive(c, f)

NextAttach ==
    \/ \E c \in LogConns : ConnectParticipant(c)
    \/ \E c \in LogConns : SendHistory(c)
    \/ \E c \in LogConns : ReceiveAttachment(c)
    \/ \E c \in LogConns : Deliver(c)

SpecAttach == InitAttach /\ [][NextAttach]_vars

\* ----------------------------------------------------------- SpecFailure
\* The pipeline job of SpecTask running while the participants are connected
\* to the chat's stream.
NextFailure ==
    \/ \E c \in LogConns : ConnectParticipant(c)
    \/ \E c \in LogConns : SendHistory(c)
    \/ \E c \in LogConns : Deliver(c)
    \/ CheckExists
    \/ Classify
    \/ SizeGate
    \/ Normalize
    \/ Commit
    \/ \E ok \in BOOLEAN : Announce(ok)
    \/ \E ok \in BOOLEAN : NotifyFailed(ok)
    \/ \E ok \in BOOLEAN : Retry(ok)

SpecFailure == InitTask /\ [][NextFailure]_vars

\* ----------------------------------------------------------- SpecDeleted
\* Connection attempts to a chat's stream around the delete request for it.
NextDeleted ==
    \/ \E r \in Reqs, u \in NotifyUsers : DeleteChat(r, u, 1)
    \/ \E r \in Reqs, sent \in 0..2 : NotifyDeleted(r, sent)
    \/ \E c \in Conns, in \in ConnectInputs : Connect(c, in[1], in[2])
    \/ \E c \in Conns : SendHistory(c)
    \/ \E c \in Conns : Disconnect(c)

SpecDeleted == Init /\ [][NextDeleted]_vars

\* -------------------------------------------------------------- SpecGate
\* chat/middleware.py JWTAuthMiddleware.__call__: the credential is looked for
\* in the query string and then in the Authorization header, validated, and
\* the connection is handed to the consumer with scope['user'] set.
GoneUserId == 4

\* a JWT as the validation sees it: whether it parses, whether its signature
\* verifies, whether it is within its lifetime, and its user_id claim (NoUser
\* for a token without the claim)
Tokens ==
    {[wellformed |-> FALSE, signed |-> FALSE, fresh |-> FALSE, user_id |-> NoUser]}
    \cup [wellformed : {TRUE}, signed : BOOLEAN, fresh : BOOLEAN,
           user_id : {NoUser, 1, 2, GoneUserId}]

\* scope['query_string']: no token parameter, token= with a blank value, a
\* token, or bytes that are not UTF-8
QueryStrings ==
    {[kind |-> "none"], [kind |-> "blank"], [kind |-> "undecodable"]}
    \cup {[kind |-> "token", token |-> t] : t \in Tokens}

\* the Authorization header: absent, another scheme, "Bearer " followed by
\* nothing or by a token, or bytes that are not UTF-8
AuthHeaders ==
    {[kind |-> "none"], [kind |-> "basic"], [kind |-> "blank"], [kind |-> "undecodable"]}
    \cup {[kind |-> "bearer", token |-> t] : t \in Tokens}

\* get_user: User.objects.get(id=validated_token['user_id']); DoesNotExist
\* gives AnonymousUser, a missing claim raises KeyError
get_user(validated_token) ==
    IF validated_token.user_id = NoUser THEN [raised |-> TRUE, user |-> AnonymousId]
    ELSE IF validated_token.user_id \in Users
    THEN [raised |-> FALSE, user |-> validated_token.user_id]
    ELSE [raised |-> FALSE, user |-> AnonymousId]

\* the try block around UntypedToken, jwt_decode and get_user: InvalidToken,
\* TokenError and every other exception give AnonymousUser
authenticate(token) ==
    IF ~token.wellformed \/ ~token.signed \/ ~token.fresh THEN AnonymousId
    ELSE IF get_user(token).raised THEN AnonymousId
    ELSE get_user(token).user

\* JWTAuthMiddleware.__call__ up to the hand-over: both decode() calls are
\* outside the try block, so undecodable bytes raise UnicodeDecodeError; the
\* header is read only when the query string gave no token
Authenticate ==
    /\ gate.pc = "request"
    /\ gate' =
          IF gate.query.kind = "undecodable" THEN [gate EXCEPT !.pc = "raised"]
          ELSE IF gate.query.kind = "token"
          THEN [gate EXCEPT !.pc = "resolved", !.user = authenticate(gate.query.token)]
          ELSE IF gate.header.kind = "undecodable" THEN [gate EXCEPT !.pc = "raised"]
          ELSE IF gate.header.kind = "bearer"
          THEN [gate EXCEPT !.pc = "resolved", !.user = authenticate(gate.header.token)]
          ELSE [gate EXCEPT !.pc = "resolved", !.user = AnonymousId]
    /\ UNCHANGED <<chats, messages, files, conn, groups, inbox, outbox, clock,
                   requests, notices, task, uconn, ugroups, reads>>

\* return await self.app(scope, receive, send): the notification consumer
\* connects with the user the gate attached
HandOver(c) ==
    /\ gate.pc = "resolved"
    /\ UConnect(c, gate.user)

InitGate ==
    /\ chats = InitChats
    /\ messages = <<>>
    /\ files = {}
    /\ conn = [c \in Conns |-> NewConn]
    /\ groups = [g \in UrlChatIds |-> {}]
    /\ inbox = [c \in Conns |-> <<>>]
    /\ outbox = [c \in Conns |-> <<>>]
    /\ clock = 1
    /\ requests = [r \in Reqs |-> IdleRequest]
    /\ notices = {}
    /\ task = NoJob
    /\ uconn = [c \in Conns |-> NewUserConn]
    /\ ugroups = [u \in Users |-> {}]
    /\ reads = [c \in Conns |-> IdleRead]
    /\ \E q \in QueryStrings, h \in AuthHeaders :
           gate = [pc |-> "request", query |-> q, header |-> h, user |-> NoUser]

NextGate ==
    \/ Authenticate
    \/ \E c \in Conns : HandOver(c)

SpecGate == InitGate /\ [][NextGate]_vars

\* ------------------------------------------------------------- SpecClose
\* Both consumers from handshake to teardown: every way connect can end
\* (joined, rejected before accept, failed inside its try block) followed by
\* the disconnect that the closing socket triggers.
NextClose ==
    \/ \E c \in Conns, in \in ConnectInputs : Connect(c, in[1], in[2])
    \/ \E c \in Conns, u \in {1, 2}, added \in BOOLEAN : ConnectError(c, u, 1, added)
    \/ \E c \in Conns : SendHistory(c)
    \/ \E c \in Conns : ReceiveTyping(c)
    \/ \E c \in Conns : Deliver(c)
    \/ \E c \in Conns : Disconnect(c)
    \/ \E c \in Conns, u \in {1, AnonymousId} : UConnect(c, u)
    \/ \E c \in Conns, added \in BOOLEAN : UConnectError(c, 1, added)
    \/ \E c \in Conns : UDisconnect(c)

SpecClose == Init /\ [][NextClose]_vars

\* ======================================================================
\* Properties
\* ======================================================================
FramesOf(seq) == {seq[i] : i \in 1..Len(seq)}

\* position of the connection_established frame in what c was sent, 0 if none
EstablishedAt(c) ==
    IF \E i \in 1..Len(outbox[c]) : outbox[c][i].type = "connection_established"
    THEN CHOOSE i \in 1..Len(outbox[c]) : outbox[c][i].type = "connection_established"
    ELSE 0

\* the frames sent before connection_established (the history) and after it
HistoryPart(c) == SubSeq(outbox[c], 1, EstablishedAt(c) - 1)
LivePart(c) == SubSeq(outbox[c], EstablishedAt(c) + 1, Len(outbox[c]))
HistoryIds(c) == {f.message.id : f \in FramesOf(HistoryPart(c))}

IsOutsider(c) ==
    /\ conn[c].state \notin {"new", "closed"}
    /\ conn[c].user # AnonymousId
    /\ \E ch \in chats : /\ ch.id = conn[c].chat_id
                         /\ conn[c].user \notin {ch.user1, ch.user2}

\* C1: a connection attempt by an authenticated identity that is neither user1
\* nor user2 of the chat is closed with the forbidden code, is never a member of
\* the chat's group, and is sent no frame and handed no group event.
C1_OutsiderRejected ==
    \A c \in Conns :
        IsOutsider(c) =>
            /\ conn[c].state = "rejected"
            /\ conn[c].close_code = CloseForbidden
            /\ \A g \in UrlChatIds : c \notin groups[g]
            /\ outbox[c] = <<>>
            /\ inbox[c] = <<>>

\* an outsider was rejected while a participant is streaming on the same chat
C1_Witness ==
    \E c, d \in Conns :
        /\ IsOutsider(c) /\ conn[c].state = "rejected"
        /\ conn[d].state = "joined" /\ conn[d].chat_id = conn[c].chat_id
        /\ messages # <<>>

\* the live chat_message frame of message m, as the claim describes it
IsLiveFrameOf(f, m) ==
    /\ f.type = "chat_message"
    /\ f.message.id = m.id
    /\ f.message.content = m.content
    /\ f.message.sender = m.sender
    /\ f.message.read_by = NoUser

\* the text messages of c's chat that were persisted after c's history was read
LiveTextMessages(c) ==
    {m \in FramesOf(messages) :
        /\ m.chat = conn[c].chat_id
        /\ m.message_type = "text" /\ m.content # ""
        /\ m.id \notin HistoryIds(c)}

Settled(c) == conn[c].state = "joined" /\ inbox[c] = <<>>

\* C2 as stated: every connection joined to the topic, the sender's own as well,
\* receives the chat_message event of a text message sent on the chat.
C2_AllConnectionsReceive ==
    \A c \in Conns :
        Settled(c) =>
            \A m \in LiveTextMessages(c) : \E f \in FramesOf(LivePart(c)) : IsLiveFrameOf(f, m)

\* C2 amended: once it has handled its queued events, a joined connection has
\* received the chat_message event (content, sender.id, read_by = null) of every
\* text message sent on the chat by another identity, and none for a message
\* sent by its own identity.
C2_OtherIdentitiesReceive ==
    \A c \in Conns :
        Settled(c) =>
            \A m \in LiveTextMessages(c) :
                IF m.sender # conn[c].user
                THEN \E f \in FramesOf(LivePart(c)) : IsLiveFrameOf(f, m)
                ELSE \A f \in FramesOf(LivePart(c)) :
                         f.type = "chat_message" => f.message.id # m.id

\* B has received A's live message and A's own connection has received nothing
C2_Witness ==
    \E a, b \in Conns :
        /\ Settled(a) /\ Settled(b) /\ conn[a].user # conn[b].user
        /\ \E m \in LiveTextMessages(b) :
               /\ m.sender = conn[a].user /\ m.content = "hi"
               /\ m \in LiveTextMessages(a)
               /\ \E f \in FramesOf(LivePart(b)) : IsLiveFrameOf(f, m)
               /\ LivePart(a) = <<>>

TypingEvent(c, f) ==
    [type |-> "typing_indicator", user |-> conn[c].user, is_typing |-> f.is_typing]

TypingFrame(c, f) ==
    [type |-> "typing_indicator", user |-> conn[c].user, is_typing |-> f.is_typing]

NoOwnTypingEcho ==
    \A c \in Conns : \A f \in FramesOf(outbox[c]) :
        f.type = "typing_indicator" => f.user # conn[c].user

\* C3 as stated: the originating connection never receives the typing_indicator
\* and every other connection of the group receives it.
C3_EveryOtherConnectionReceives ==
    [][\A c \in Conns : \A f \in TypingFrames :
          Receive(c, f) =>
              /\ Dispatch(c, TypingEvent(c, f)) = <<>>
              /\ \A d \in groups[conn[c].chat_id] \ {c} :
                     /\ inbox'[d] = Append(inbox[d], TypingEvent(c, f))
                     /\ Dispatch(d, TypingEvent(c, f)) = <<TypingFrame(c, f)>>]_vars

\* C3 amended: the typing event is queued on every channel of the group; its
\* handler sends the typing_indicator frame (sender identity, is_typing) on
\* every connection of another identity and nothing on the originating
\* connection or any other connection of the sender's identity; no connection
\* is ever sent a typing_indicator naming its own identity.
C3_OtherIdentitiesReceive ==
    [][/\ NoOwnTypingEcho'
       /\ \A c \in Conns : \A f \in TypingFrames :
              Receive(c, f) =>
                  /\ Dispatch(c, TypingEvent(c, f)) = <<>>
                  /\ \A d \in groups[conn[c].chat_id] :
                         /\ inbox'[d] = Append(inbox[d], TypingEvent(c, f))
                         /\ Dispatch(d, TypingEvent(c, f)) =
                                IF conn[d].user # conn[c].user
                                THEN <<TypingFrame(c, f)>> ELSE <<>>]_vars

\* B was sent A's typing_indicator while A's connection was sent none
C3_Witness ==
    \E a, b \in Conns :
        /\ conn[a].state = "joined" /\ conn[b].state = "joined"
        /\ conn[a].user # conn[b].user
        /\ \E f \in FramesOf(outbox[b]) :
               f.type = "typing_indicator" /\ f.user = conn[a].user /\ f.is_typing
        /\ \A f \in FramesOf(outbox[a]) : f.type # "typing_indicator"
        /\ inbox[a] = <<>>

Joins(c) == conn[c].state # "joined" /\ conn'[c].state = "joined"

\* the frames c is sent by the step
NewFrames(c) == SubSeq(outbox'[c], Len(outbox[c]) + 1, Len(outbox'[c]))

\* C4 as stated: once B has joined, every message of the chat that existed at the
\* join and was not sent by B is read (read_by and read_at set).
C4_JoinMarksRead ==
    \A c \in Conns :
        conn[c].state = "joined" =>
            \A m \in FramesOf(messages) :
                (m.chat = conn[c].chat_id /\ m.sender # conn[c].user /\ m.id \in HistoryIds(c))
                    => (m.read_by # NoUser /\ m.read_at # 0)

\* C4 amended: entering JOINED changes no message (read_by and read_at stay as
\* they were; an unread message is delivered with read_by = null), and the
\* history frames, one per message of the chat up to the history limit, go to the joining connection
\* only: no other connection is sent or queued anything by the join.
C4_JoinLeavesReadState ==
    [][\A c \in Conns :
          Joins(c) =>
              /\ messages' = messages
              /\ \A d \in Conns \ {c} : outbox'[d] = outbox[d]
              /\ inbox' = inbox
              /\ LET new == NewFrames(c)
                     chatMsgs == {m \in FramesOf(messages) : m.chat = conn[c].chat_id}
                     n == Cardinality(chatMsgs)
                 IN /\ Len(new) = (IF n < HistoryLimit THEN n ELSE HistoryLimit) + 1
                    /\ new[Len(new)].type = "connection_established"
                    /\ \A i \in 1..(Len(new) - 1) :
                           /\ new[i].type = "chat_message"
                           /\ \E m \in chatMsgs :
                                  /\ new[i].message.id = m.id
                                  /\ new[i].message.read_by = m.read_by
                                  /\ new[i].message.read_at = m.read_at]_vars

\* B joined a chat holding two unread messages of A while A is streaming: both
\* are in B's history, still unread, and A was sent nothing but its own greeting
C4_Witness ==
    \E a, b \in Conns :
        /\ conn[a].state = "joined" /\ conn[b].state = "joined"
        /\ conn[a].user = 1 /\ conn[b].user = 2
        /\ Len(messages) = 2
        /\ \A m \in FramesOf(messages) : m.sender = 1 /\ m.read_by = NoUser
        /\ HistoryIds(b) = {1, 2}
        /\ EstablishedAt(a) > 0 /\ LivePart(a) = <<>> /\ inbox[a] = <<>>

\* a read_receipt frame names reader r and a message that r has read: r has
\* invoked mark-read on the chat
HasMarkedRead(r) ==
    \E c \in Conns : \E f \in FramesOf(outbox[c]) :
        /\ f.type = "read_receipt" /\ f.read_by = r
        /\ f.message_id \in 1..Len(messages)
        /\ messages[f.message_id].read_by = r

LastIds(ms, n) ==
    LET k == IF Len(ms) < n THEN Len(ms) ELSE n
    IN [i \in 1..k |-> ms[Len(ms) - k + i].id]

\* ids of the chat_message frames of a frame sequence, in the order sent
SentIds(fs) ==
    LET cm == SelectSeq(fs, LAMBDA f : f.type = "chat_message")
    IN [i \in 1..Len(cm) |-> cm[i].message.id]

ChatLog(chat_id) == OrderByCreatedAt(SelectSeq(messages, LAMBDA m : m.chat = chat_id))

\* C5 as stated: the history delivered on join with limit N is exactly the
\* N most recently created messages of the chat in ascending creation order
\* (all of them, ascending, when the chat holds at most N).
C5_HistoryIsMostRecent ==
    [][\A c \in Conns : \A limit \in Limits :
          SendHistoryLimit(c, limit) =>
              SentIds(NewFrames(c)) = LastIds(ChatLog(conn[c].chat_id), limit)]_vars

\* ---------------------------------------------------------------- C6
SamePair(q, r) ==
    {requests[q].user, requests[q].user2_id} = {requests[r].user, requests[r].user2_id}

\* at most one Chat row per unordered pair, stored with user1 < user2
ChatRowsCanonical ==
    /\ \A ch \in chats : ch.user1 < ch.user2
    /\ \A x \in chats, y \in chats : (x.user1 = y.user1 /\ x.user2 = y.user2) => x = y

\* C6 as stated: for distinct users A and B, every finished creation request of
\* A for B or of B for A returns a Chat, all of them the same one, and every
\* state holds at most one row for the pair, with user1 < user2.
C6_EveryRequestReturnsTheChat ==
    /\ ChatRowsCanonical
    /\ \A r \in Reqs :
           (requests[r].pc = "done" /\ requests[r].user # requests[r].user2_id) =>
               /\ requests[r].status = HttpCreated
               /\ requests[r].chat # 0
               /\ \A q \in Reqs :
                      (requests[q].pc = "done" /\ SamePair(q, r)) =>
                          requests[q].chat = requests[r].chat

\* ---------------------------------------------------------------- C8
MessagesOfJob(id) == {i \in 1..Len(messages) : messages[i].celery_task_id = id}

\* C8 as stated: however often process_and_save_file_task runs for one job id (a
\* retry, or a re-execution after a crash between steps), at most one Message
\* row carries that job id.
C8_OneMessagePerJob ==
    task.pc # "none" => Cardinality(MessagesOfJob(task.task_id)) <= 1

\* ---------------------------------------------------------------- C9
\* a frame that uploads a file: base64 data and a file name are both present
IsUpload(f) == f.type = "chat_message" /\ f.file_data.given /\ f.file_name # <<>>

\* the file name has no extension, or an extension that is only the dot
LacksExtension(name) == splitext(name)[2] \in {<<>>, <<".">>}

\* C9 as stated: a chat_message file frame whose file name has no (or an empty)
\* extension is answered to the sender with upload_failed / missing_extension,
\* and no file is staged, no pipeline job is enqueued and no Message is created.
C9_MissingExtensionRejected ==
    [][\A c \in Conns : \A f \in FileFrames :
          (IsUpload(f) /\ LacksExtension(f.file_name) /\ Receive(c, f)) =>
              /\ NewFrames(c) = <<[type |-> "upload_failed", reason |-> "missing_extension"]>>
              /\ files' = files
              /\ task' = task
              /\ messages' = messages]_vars

\* --------------------------------------------------------------- C10
\* C10 as stated: on a chat_message file frame the handler stages the upload,
\* enqueues one pipeline job and replies to the sender only with
\* file_upload_started; the handler itself creates no Message and announces
\* nothing to the topic.
C10_HandlerOnlyEnqueues ==
    [][\A c \in Conns : \A f \in FileFrames :
          (IsUpload(f) /\ f.file_data.valid /\ ~LacksExtension(f.file_name)
               /\ Receive(c, f)) =>
              /\ messages' = messages
              /\ inbox' = inbox
              /\ task'.pc = "exists"
              /\ Len(NewFrames(c)) = 1
              /\ NewFrames(c)[1].type = "file_upload_started"
              /\ \A d \in Conns \ {c} : outbox'[d] = outbox[d]]_vars

\* --------------------------------------------------------------- C11
\* the run re-encodes the staged image (the condition of the normalization step)
NeedsNormalize(t) ==
    t.file_type = "image" /\ (t.file_size > MAX_IMAGE_SIZE \/ t.ext # <<".", "webp">>)

\* C11 as stated: an image that goes through normalization is either stored
\* for commit with a size of at most MAX_IMAGE_SIZE (2 MiB) or the run fails
\* with file_too_large; a result above 2 MiB after the second pass is never
\* committed.
C11_NormalizedWithinSoftLimit ==
    [][(Normalize /\ NeedsNormalize(task) /\ DataAt(files, task.file_path).encodable) =>
          \/ /\ task'.pc = "commit"
             /\ DataAt(files', task'.processed_path).size <= MAX_IMAGE_SIZE
          \/ /\ task'.pc = "fail"
             /\ task'.reason = "file_too_large"]_vars

\* --------------------------------------------------------------- C12
\* the message_type the classification of the staged file calls for
TypeOfClass(file_type) == IF file_type = "image" THEN "image" ELSE "file"

\* C12 as stated: the Message the pipeline commits has message_type image when
\* the staged file was classified as an image and file when it was classified
\* as a document, and the announced chat_message carries the same message_type.
C12_CommittedTypeFollowsClass ==
    [][/\ (Commit /\ Len(messages') > Len(messages)) =>
              messages'[Len(messages')].message_type = TypeOfClass(task.file_type)
       /\ \A c \in Conns :
              (Announce(TRUE) /\ Len(inbox'[c]) > Len(inbox[c])) =>
                  inbox'[c][Len(inbox'[c])].message.message_type
                      = TypeOfClass(task.file_type)]_vars

\* --------------------------------------------------------------- C13
\* JSON objects whose type is none of chat_message, typing, read_receipt
UnknownFrames ==
    {f \in OtherFrames : f.json /\ ~IsNotObject(f)
                             /\ f.type \notin {"chat_message", "typing", "read_receipt"}}

\* what a frame that changes nothing but the sender's outbox leaves alone
OnlyRepliesTo(c) ==
    /\ \A d \in Conns \ {c} : outbox'[d] = outbox[d]
    /\ inbox' = inbox
    /\ messages' = messages
    /\ files' = files
    /\ conn' = conn
    /\ groups' = groups

\* C13 as stated: a frame of an unrecognized type is silently ignored: no frame
\* is sent to any connection, no Message or read state changes and the
\* connection stays streaming.
C13_UnknownTypeIgnored ==
    [][\A c \in Conns : \A f \in UnknownFrames :
          Receive(c, f) => (outbox' = outbox /\ OnlyRepliesTo(c))]_vars

\* C13 amended: a frame of an unrecognized type is answered with exactly one
\* error frame "Invalid message type" on the connection that sent it; nothing
\* is sent or queued to any other connection, no Message or read state changes
\* and the connection stays joined.
C13_UnknownTypeAnsweredWithError ==
    [][\A c \in Conns : \A f \in UnknownFrames :
          Receive(c, f) =>
              /\ NewFrames(c) = <<[type |-> "error", message |-> "Invalid message type"]>>
              /\ OnlyRepliesTo(c)
              /\ conn'[c].state = "joined"]_vars

\* a connection was answered "Invalid message type" while the other participant
\* was joined and got nothing, and a later text message of it was still handled
C13_Witness ==
    \E a, b \in Conns :
        /\ a # b /\ conn[a].state = "joined" /\ conn[b].state = "joined"
        /\ Len(LivePart(a)) >= 1
        /\ LivePart(a)[1] = [type |-> "error", message |-> "Invalid message type"]
        /\ LivePart(b) = <<>> /\ inbox[b] # <<>>
        /\ \E i \in 1..Len(messages) : messages[i].sender = conn[a].user

\* --------------------------------------------------------------- C14
InvalidJson == [json |-> FALSE]

\* C14: a frame that is not valid JSON produces exactly one error event, sent
\* to the offending connection only; nothing is queued for the topic, the
\* message log is unchanged, and the connection stays joined and in its group,
\* which is all that receive requires to handle the next frame.
C14_InvalidJsonAnsweredToSenderOnly ==
    [][\A c \in Conns :
          Receive(c, InvalidJson) =>
              /\ NewFrames(c) = <<[type |-> "error", message |-> "Invalid JSON format"]>>
              /\ OnlyRepliesTo(c)
              /\ conn'[c].state = "joined"
              /\ c \in groups'[conn'[c].chat_id]]_vars

\* after its invalid frame was answered, the connection sent a text message
\* that was stored and queued for the other participant, who saw no error
C14_Witness ==
    \E a, b \in Conns :
        /\ a # b /\ conn[a].state = "joined" /\ conn[b].state = "joined"
        /\ LivePart(a) = <<[type |-> "error", message |-> "Invalid JSON format"]>>
        /\ LivePart(b) = <<>>
        /\ \E i \in 1..Len(messages) :
               /\ messages[i].sender = conn[a].user
               /\ \E j \in 1..Len(inbox[b]) :
                      /\ inbox[b][j].type = "chat_message"
                      /\ inbox[b][j].message.id = messages[i].id

\* --------------------------------------------------------------- C15
ReceiptEvent(c, f) ==
    [type |-> "read_receipt", message_id |-> f.message_id, read_by |-> conn[c].user]

QueuedToGroup(c, ev) ==
    \A d \in Conns :
        inbox'[d] = IF d \in groups[conn[c].chat_id] THEN Append(inbox[d], ev) ELSE inbox[d]

\* message i is one the reader r has not read and did not send
UnreadFor(i, r) == messages[i].read_by = NoUser /\ messages[i].sender # r

C16_DisconnectAlwaysCleansUp ==
    \A c \in Conns :
        /\ conn[c].state = "closed" => (\A g \in UrlChatIds : c \notin groups[g]) /\ inbox[c] = <<>>
        /\ uconn[c].state = "closed" =>
               /\ ~uconn[c].raised
               /\ \A u \in Users : c \notin ugroups[u]
               /\ uconn[c].inbox = <<>>
\* C17: a pipeline job that ended in a failure reason has announced
\* upload_failed with that reason to the chat's group, has left no Message row
\* of the job and no file on storage. (Reason "error" is the run whose failure
\* announcement the channel layer refused, and a re-executed job may meet the
\* row of its earlier run: neither is counted.)
C17_FailedJobLeavesNothing ==
    (task.pc = "done" /\ task.reason \notin {"success", "error"} /\ task.runs = 1) =>
        /\ task.reason \in task.notified
        /\ MessagesOfJob(task.task_id) = {}
        /\ files = {}

\* C18: the notification step of chat create, update and delete ends the
\* request with its success status and leaves the committed chat rows as they
\* are, however many of the two group_send calls the channel layer refused.
NotifyPcs == {"notify", "notify_update", "notify_delete"}

C18_BroadcastFailureNeverFailsRequest ==
    [][\A r \in Reqs :
          (requests[r].pc \in NotifyPcs /\ requests'[r].pc = "done") =>
              /\ requests'[r].status =
                     (IF requests[r].pc = "notify" THEN HttpCreated
                      ELSE IF requests[r].pc = "notify_update" THEN HttpOk
                      ELSE HttpNoContent)
              /\ chats' = chats]_vars

\* both participants listen on their notification stream, no group_send ever
\* went through, and yet a chat was created, chat 1 was re-pointed and deleted,
\* each request ending with its success status
C18_Witness ==
    /\ notices = {}
    /\ \E c, d \in Conns :
           /\ uconn[c].state = "joined" /\ uconn[c].user = 1 /\ Len(uconn[c].outbox) = 1
           /\ uconn[d].state = "joined" /\ uconn[d].user = 2 /\ Len(uconn[d].outbox) = 1
           /\ uconn[c].inbox = <<>> /\ uconn[d].inbox = <<>>
    /\ \E r \in Reqs : requests[r].pc = "done" /\ requests[r].status = HttpNoContent
    /\ \E r \in Reqs : requests[r].pc = "done" /\ requests[r].status = HttpOk
    /\ \E ch \in chats : ch.id = 1 /\ ~ch.is_active /\ ch.user2 = 3

\* C19: the gate never raises; it resolves to the user of a credential that
\* parses, verifies, is within its lifetime and names an existing user, and to
\* the anonymous identity for every other request.
Presented(g) ==
    IF g.query.kind = "token" THEN {g.query.token}
    ELSE IF g.header.kind = "bearer" THEN {g.header.token}
    ELSE {}

GoodFor(t) == IF t.wellformed /\ t.signed /\ t.fresh /\ t.user_id \in Users
              THEN t.user_id ELSE AnonymousId

C19_GateNeverRaises ==
    /\ gate.pc # "raised"
    /\ gate.pc = "resolved" =>
           /\ \A t \in Presented(gate) : gate.user = GoodFor(t)
           /\ Presented(gate) = {} => gate.user = AnonymousId

\* C20: the chat_message, typing_indicator and read_receipt frames of a
\* connection, received or still to come from its channel, are the broadcasts
\* issued since it entered the group, in the order of issue; so of two
\* connections of one chat, what the later one is due of the events addressed
\* to both is the tail of what the earlier one is due, in the same order.
TopicTypes == {"chat_message", "typing_indicator", "read_receipt"}

RECURSIVE Relayed(_, _)
Relayed(c, events) ==
    IF events = <<>> THEN <<>>
    ELSE Dispatch(c, Head(events)) \o Relayed(c, Tail(events))

\* the topic frames c has received since joining
ReceivedOf(ob, c) ==
    LET IsTopic(f) == f.type \in TopicTypes
        live == IF \E i \in 1..Len(ob[c]) : ob[c][i].type = "connection_established"
                THEN SubSeq(ob[c], 1 + (CHOOSE i \in 1..Len(ob[c]) :
                                ob[c][i].type = "connection_established"), Len(ob[c]))
                ELSE <<>>
    IN SelectSeq(live, IsTopic)

\* ... followed by the ones its queued events will give
DueOf(ob, ib, c) == ReceivedOf(ob, c) \o Relayed(c, ib[c])

\* the frames of seq that the handlers also relay to a connection of user u
AlsoFor(seq, u) ==
    LET Relays(f) == /\ f.type = "chat_message" => f.message.sender # u
                     /\ f.type = "typing_indicator" => f.user # u
    IN SelectSeq(seq, Relays)

IsSuffixOf(s, t) == Len(s) <= Len(t) /\ s = SubSeq(t, Len(t) - Len(s) + 1, Len(t))

InTopic(c) == conn[c].state \in {"accepted", "joined"}

C20_OneOrderForAll ==
    /\ [](\A c, d \in Conns :
             (c < d /\ InTopic(c) /\ InTopic(d) /\ conn[c].chat_id = conn[d].chat_id) =>
                 LET sc == AlsoFor(DueOf(outbox, inbox, c), conn[d].user)
                     sd == AlsoFor(DueOf(outbox, inbox, d), conn[c].user)
                 IN IsSuffixOf(sc, sd) \/ IsSuffixOf(sd, sc))
    /\ [][\A c \in Conns :
             (InTopic(c) /\ conn'[c].state = "joined") =>
                 LET before == DueOf(outbox, inbox, c)
                     after == DueOf(outbox', inbox', c)
                 IN \/ after = before
                    \/ /\ Len(after) = Len(before) + 1
                       /\ SubSeq(after, 1, Len(before)) = before
                       /\ inbox'[c] # <<>>
                       /\ after[Len(after)] \in
                              FramesOf(Dispatch(c, inbox'[c][Len(inbox'[c])]))]_vars

\* both participants have received the same two different receipts in the
\* same order, one of them with a frame of another kind in between
C20_Witness ==
    \E c, d \in Conns :
        /\ c # d /\ conn[c].state = "joined" /\ conn[d].state = "joined"
        /\ conn[c].user # conn[d].user
        /\ LET rc == ReceivedOf(outbox, c)
               rd == ReceivedOf(outbox, d)
           IN /\ Len(rc) = 3 /\ Len(rd) = 2
              /\ rc[1].type = "read_receipt" /\ rc[3].type = "read_receipt"
              /\ rc[2].type # "read_receipt"
              /\ rc[1] # rc[3]
              /\ rd = <<rc[1], rc[3]>>

\* C21: a connection that takes an upload_failed event from its channel sends
\* its client an upload_failed frame with the event's reason and stays joined.
C21_UploadFailedRelayed ==
    [][\A c \in Conns :
          (/\ conn[c].state = "joined"
           /\ inbox[c] # <<>>
           /\ Head(inbox[c]).type = "upload_failed"
           /\ inbox'[c] = Tail(inbox[c])) =>
              /\ outbox'[c] = Append(outbox[c], [type |-> "upload_failed",
                                                  reason |-> Head(inbox[c]).reason])
              /\ conn'[c].state = "joined"]_vars

\* C22: a connection attempt by an authenticated identity to the stream of a
\* chat that the delete request has deleted is rejected with the not-found
\* close code and joins no group.
DeletedChatIds == {ch.id : ch \in {x \in chats : ~x.is_active}}

C22_DeletedChatRejects ==
    [][\A c \in Conns :
          (conn[c].state = "new" /\ conn'[c].state # "new"
             /\ conn'[c].user # AnonymousId
             /\ conn'[c].chat_id \in DeletedChatIds) =>
              /\ conn'[c].state = "rejected"
              /\ conn'[c].close_code = CloseNotFound
              /\ \A g \in UrlChatIds : c \notin groups'[g]]_vars

\* C23: every persisted Message has message_type text, image or file, and
\* every Message of type text has content.
C23_MessagesWellTyped ==
    \A i \in 1..Len(messages) :
        /\ messages[i].message_type \in {"text", "image", "file"}
        /\ messages[i].message_type = "text" => messages[i].content # ""

\* C24: a job is run at most 1 + max_retries times; a retry follows only a
\* run that an exception ended, a run that announced its failure reason ends
\* the job, a finished job stays finished, and every job finishes.
RetryDiscipline ==
    /\ (task'.retries # task.retries) =>
           (task.pc = "except" /\ task'.retries = task.retries + 1)
    /\ (task.pc = "fail" /\ task'.notified # task.notified) => (task'.pc = "done")
    /\ (task.pc = "done") => (task'.pc = "done")

C24_BoundedRetries ==
    /\ [](task.retries <= max_retries)
    /\ [][RetryDiscipline]_vars
    /\ <>(task.pc = "done")

\* the fourth run of a job has ended
C24_Witness == task.pc = "done" /\ task.retries = max_retries

\* C25: once a message has read_by and read_at set, no mark-read running at
\* the same time changes them.
C25_ReadStateNeverOverwritten ==
    [][\A i \in 1..Len(messages) :
          messages[i].read_by # NoUser =>
              /\ messages'[i].read_by = messages[i].read_by
              /\ messages'[i].read_at = messages[i].read_at]_vars

\* the events that a step queues on channel d
Queued(d) == {inbox'[d][i] : i \in (Len(inbox[d]) + 1)..Len(inbox'[d])}

\* user u is the origin of a write to the Message rows or of a chat_message or
\* read_receipt event in this step
WritesAs(u) ==
    \/ Len(messages') > Len(messages) /\ messages'[Len(messages')].sender = u
    \/ \E i \in 1..Len(messages) : messages'[i] # messages[i] /\ messages'[i].read_by = u
    \/ \E d \in Conns : \E ev \in Queued(d) :
           \/ ev.type = "read_receipt" /\ ev.read_by = u
           \/ ev.type = "chat_message" /\ ev.message.sender = u

\* C26: a chat_message or read_receipt frame of a connection whose identity is
\* not a participant of the chat it is subscribed to writes no Message row and
\* queues no event on the topic.
C26_NonParticipantWritesNothing ==
    [][\A c \in Conns :
          (/\ conn[c].state = "joined"
           /\ NotParticipant(get_chat(chats, conn[c].chat_id), conn[c].user))
          => ~WritesAs(conn[c].user)]_vars

\* C27: no connection is sent the same Message twice, whether as a history
\* frame or as a relayed chat_message.
C27_NoMessageTwice ==
    \A c \in Conns : \A i, j \in 1..Len(outbox[c]) :
        (/\ i < j
         /\ outbox[c][i].type = "chat_message"
         /\ outbox[c][j].type = "chat_message")
        => outbox[c][i].message.id # outbox[c][j].message.id

\* C28: when a run of the pipeline has ended, every Message row of the job
\* refers to a file that is on storage.
C28_CommittedFileKept ==
    (task.pc \in {"done", "except"}) =>
        \A i \in 1..Len(messages) :
            messages[i].celery_task_id = task.task_id => exists(files, messages[i].file_path)

\* the chats that some joined connection is subscribed to
SubscribedChats == {conn[c].chat_id : c \in {d \in Conns : conn[d].state = "joined"}}

\* C29: a read_receipt frame changes the read state of no message of a chat
\* other than the one its connection is subscribed to, and a read_receipt
\* event is queued on a chat's topic only in a step that marked a message of
\* that chat read.
C29_ReceiptStaysInChat ==
    [][/\ \A i \in 1..Len(messages) :
             messages[i].chat \notin SubscribedChats =>
                 /\ messages'[i].read_by = messages[i].read_by
                 /\ messages'[i].read_at = messages[i].read_at
       /\ \A d \in Conns : \A ev \in Queued(d) :
             ev.type = "read_receipt" =>
                 /\ ev.message_id \in 1..Len(messages)
                 /\ messages[ev.message_id].chat = conn[d].chat_id
                 /\ messages[ev.message_id].read_by = NoUser
                 /\ messages'[ev.message_id].read_by = ev.read_by]_vars

\* C30: the file of every Message holds the bytes that the frame which created
\* the Message uploaded: staged by the sender of the Message at the time the
\* Message was created.
C30_AttachmentIsOwnUpload ==
    \A i \in 1..Len(messages) :
        (messages[i].file_path # NoPath /\ exists(files, messages[i].file_path)) =>
            DataAt(files, messages[i].file_path) =
                [frame |-> messages[i].created_at, by |-> messages[i].sender]
====
